---- MODULE Spec2Model ----
(***************************************************************************)
(* OCR Studio: the client-side pipeline (image compression, PDF splitting,  *)
(* sequential chunk submission, merge) of app/page.tsx and the /api/ocr     *)
(* proxy route it submits to.                                               *)
(*                                                                          *)
(* Strings are sequences of string tokens (a message is the concatenation   *)
(* of its tokens); a file name is the sequence of its dot-separated         *)
(* segments; null is Null, a present value v is Some(v).                    *)
(***************************************************************************)
EXTENDS Integers, Sequences, FiniteSets, TLC

VARIABLES
    file,            \* useState<File | null>
    text,            \* useState("")
    isProcessing,    \* useState(false)
    statusMessage,   \* useState<string | null>
    error,           \* useState<string | null>
    effectPending,   \* the [file] effect of the last commit has not run yet
    nDrops,          \* files selected so far; run k is the run of the k-th file
    runs,            \* the activations of processOCR, by run number
    textBy,          \* history: the run whose setText is displayed, 0 for a UI handler
    errorBy,         \* history: the run whose setError is displayed, 0 for a UI handler
    served           \* route.ts: the request POST handled last, and what it did with it

vars == <<file, text, isProcessing, statusMessage, error, effectPending, nDrops,
          runs, textBy, errorBy, served>>

(***************************************************************************)
(* Bounds of the model.                                                     *)
(***************************************************************************)
MaxSelections == 1    \* files selected in one session of Spec
MaxRuns == 2          \* files selected in one session of SpecRace
MaxPages == 121       \* pages of an input PDF
MaxFits == 2          \* scale x quality combinations of an image that fit the budget

(***************************************************************************)
(* Size-budget policy.                                                      *)
(***************************************************************************)
MiB == 1024 * 1024
MAX_ERROR_BODY_LENGTH == 500
OCR_IMAGE_LIMIT_BYTES == 10 * 1024 * 1024
OCR_PDF_LIMIT_BYTES == 50 * 1024 * 1024
OCR_PDF_PAGE_LIMIT == 100
DROPZONE_MAX_BYTES == 200 * 1024 * 1024
PDF_CHUNK_TARGET_BYTES == 45 * 1024 * 1024
PDF_CHUNK_MAX_PAGES == 40
SLEEP_MS == 250

\* route.ts
MAX_ERROR_TEXT_LENGTH == 2000
MAX_IMAGE_SIZE_BYTES == 10 * 1024 * 1024
MAX_PDF_SIZE_BYTES == 50 * 1024 * 1024

(***************************************************************************)
(* Values.                                                                  *)
(***************************************************************************)
Null == [some |-> FALSE, val |-> <<>>]
Some(v) == [some |-> TRUE, val |-> v]

\* No request has reached the route.
NoRequest == [kind |-> "none"]

Min(a, b) == IF a <= b THEN a ELSE b
Max(a, b) == IF a >= b THEN a ELSE b

Front(s) == SubSeq(s, 1, Len(s) - 1)
Last(s) == s[Len(s)]

\* name.replace(/\.[^/.]+$/, "") + "." + nextExt: the last segment is dropped
\* when the name has a dot followed by at least one character.
ReplaceExtension(name, nextExt) ==
    (IF Len(name) > 1 /\ Last(name) # "" THEN Front(name) ELSE name) \o nextExt

\* scales and qualities of compressImageForOcr, in tenths.
scales == <<10, 9, 8, 7, 6>>
qualities == <<9, 8, 7, 6, 5>>
Combos == (1..Len(scales)) \X (1..Len(qualities))

(***************************************************************************)
(* Files. A File is [name, type, size, body]; body describes the bytes:     *)
(*   raster: an image; the encoder's output size for each scale x quality   *)
(*           is fitBytes for the combinations in fits, overBytes otherwise; *)
(*   jpeg:   the output of canvas.toBlob at scales[scale], qualities[q];    *)
(*   pdf:    a document of pageCount pages (0-based); page p serializes to  *)
(*           heavyBytes if p is in heavyAt and to lightBytes otherwise, and *)
(*           a saved document adds baseBytes;                               *)
(*   chunk:  pages [first, last) of a pdf, saved by createPdfChunk;         *)
(*   opaque: anything else.                                                 *)
(***************************************************************************)
NoFile == [name |-> <<>>, type |-> <<"">>, size |-> 0, body |-> [kind |-> "none"]]

PageBytes(doc, p) == IF p \in doc.heavyAt THEN doc.heavyBytes ELSE doc.lightBytes

\* chunkDoc.save() of the pages [startPage, endPageExclusive) of doc.
SavedBytes(doc, startPage, endPageExclusive) ==
    LET n == endPageExclusive - startPage
        h == Cardinality({p \in doc.heavyAt : startPage <= p /\ p < endPageExclusive})
    IN  doc.baseBytes + h * doc.heavyBytes + (n - h) * doc.lightBytes

\* canvas.toBlob(cb, "image/jpeg", qualities[q]) on the canvas of scales[s].
EncodedBytes(img, s, q) ==
    IF <<s, q>> \in img.fits THEN img.fitBytes ELSE img.overBytes

\* new File([chunkArrayBuffer], replaceExtension(fileName, `part-${partNumber}.pdf`),
\* { type: "application/pdf" }) holding the pages [startPage, endPageExclusive).
CreatePdfChunk(source, startPage, endPageExclusive, fileName, partNumber) ==
    [name |-> ReplaceExtension(fileName, <<"part-" \o ToString(partNumber), "pdf">>),
     type |-> <<"application", "pdf">>,
     size |-> SavedBytes(source, startPage, endPageExclusive),
     body |-> [kind |-> "chunk", first |-> startPage, last |-> endPageExclusive]]

\* new File([blob], replaceExtension(file.name, "jpg"), { type: "image/jpeg" }).
CompressedFile(f, s, q) ==
    [name |-> ReplaceExtension(f.name, <<"jpg">>),
     type |-> <<"image", "jpeg">>,
     size |-> EncodedBytes(f.body, s, q),
     body |-> [kind |-> "jpeg", scale |-> scales[s], quality |-> qualities[q]]]

IsImageType(type) == Len(type) >= 2 /\ type[1] = "image"   \* type.startsWith("image/")
IsPdfType(type) == type = <<"application", "pdf">>          \* type === "application/pdf"

(***************************************************************************)
(* Input families.                                                          *)
(***************************************************************************)
Raster(name, size, decodes, fits, fitBytes) ==
    [name |-> name, type |-> <<"image", "png">>, size |-> size,
     body |-> [kind |-> "raster", decodes |-> decodes, fits |-> fits,
               fitBytes |-> fitBytes, overBytes |-> OCR_IMAGE_LIMIT_BYTES + 1]]

Pdf(name, size, parses, pageCount, lightBytes, heavyBytes, heavyAt) ==
    [name |-> name, type |-> <<"application", "pdf">>, size |-> size,
     body |-> [kind |-> "pdf", parses |-> parses, pageCount |-> pageCount,
               baseBytes |-> 5 * 256, lightBytes |-> lightBytes,
               heavyBytes |-> heavyBytes, heavyAt |-> heavyAt]]

Opaque(name, type, size) ==
    [name |-> name, type |-> type, size |-> size, body |-> [kind |-> "opaque"]]

\* The sets of at most k combinations.
RECURSIVE FitSets(_)
FitSets(k) ==
    IF k = 0 THEN {{}}
    ELSE LET prev == FitSets(k - 1)
         IN  prev \cup {s \cup {c} : s \in prev, c \in Combos}

\* Oversized images: every table of encoder outputs with at most MaxFits
\* fitting combinations; a fitting output is exactly at the budget or below it.
CompressImages ==
    {Raster(<<"scan", "png">>, size, TRUE, fits, fitBytes) :
        size \in {OCR_IMAGE_LIMIT_BYTES + 1, 12 * MiB},
        fits \in FitSets(MaxFits),
        fitBytes \in {OCR_IMAGE_LIMIT_BYTES, 3 * MiB}}
    \cup {Raster(<<"scan", "png">>, size, decodes, {}, 3 * MiB) :
        size \in {2 * MiB, OCR_IMAGE_LIMIT_BYTES, 12 * MiB}, decodes \in BOOLEAN}

\* A page size at which PDF_CHUNK_MAX_PAGES pages save to exactly the target.
LightExact == (PDF_CHUNK_TARGET_BYTES - 5 * 256) \div PDF_CHUNK_MAX_PAGES

HeavyLayouts(pageCount) ==
    {{}} \cup {{p} : p \in {0, 1, 39, 40, pageCount - 1} \cap (0..(pageCount - 1))}
         \cup {h \in {{0, 1}, {39, 40}} : h \subseteq 0..(pageCount - 1)}

\* PDFs handed to the splitter: every page count up to MaxPages, light pages
\* that fit 40 to a chunk, fit exactly, miss by a byte each, or fit 22 to a
\* chunk, and heavy pages that are below the target alone but above it with
\* any other page, exactly at the hard limit when alone, and one byte above it.
SplitPdfs ==
    UNION {UNION {
      {Pdf(<<"book", "pdf">>, 60 * MiB, TRUE, n, light, heavy, at) :
          light \in {MiB, LightExact, LightExact + 1, 2 * MiB},
          heavy \in IF at = {} THEN {0}
                    ELSE {44 * MiB, OCR_PDF_LIMIT_BYTES - 5 * 256,
                          OCR_PDF_LIMIT_BYTES - 5 * 256 + 1}}
      : at \in HeavyLayouts(n)} : n \in 0..MaxPages}
    \cup {Pdf(<<"book", "pdf">>, 60 * MiB, FALSE, 0, 0, 0, {})}

(***************************************************************************)
(* Messages.                                                                *)
(***************************************************************************)
MsgPreparing == <<"Preparing file...">>
MsgProcessingImage == <<"Processing image...">>
MsgImageCompressed == <<"Image compressed. Running OCR...">>
MsgProcessingPdf == <<"Processing PDF...">>
MsgSplitting == <<"Splitting PDF into OCR-safe chunks...">>
MsgPageCount(pageCount, n) ==
    <<"PDF has ", ToString(pageCount), " pages. Processing ", ToString(n), " chunks...">>
MsgChunk(k, n) == <<"Processing PDF chunk ", ToString(k), "/", ToString(n), "...">>

ErrDecode == <<"Failed to decode image">>
ErrCanvas == <<"Could not initialize canvas for image compression">>
ErrEncode == <<"Could not encode compressed image">>
ErrStillTooLarge ==
    <<"Image is still too large after compression. Please resize it manually and try again.">>
ErrSinglePage ==
    <<"A single PDF page exceeds the OCR API file size limit. Please reduce page resolution and try again.">>
ErrUnsupported == <<"Unsupported file type. Please upload an image or PDF.">>
ErrPdfLoad == <<"Failed to parse PDF document">>     \* thrown by PDFDocument.load
ErrFetch == <<"Failed to fetch">>                    \* thrown by fetch

(***************************************************************************)
(* One activation of processOCR. pc is the await it is suspended at:        *)
(*   compress   await compressImageForOcr, before the first encode          *)
(*   encode     await canvasToBlob(canvas, qualities[qualIx])               *)
(*   probe      await PDFDocument.load in processOCR                        *)
(*   split_load await PDFDocument.load in splitPdfForOcr                    *)
(*   create     await createPdfChunk(source, cursor, end, name, partNumber) *)
(*   split_ret  await splitPdfForOcr, the loop has ended                    *)
(*   fetch      await submitFileToOcr(Last(calls))                          *)
(*   sleep      await sleep(250)                                            *)
(*   done / failed: the finally block has run.                              *)
(* encodes, calls, wrote and thrown record what the run has done; sleeps is  *)
(* the delays, in ms, of its calls of sleep, got the responses its          *)
(* submissions have received and statuses the values it has passed to       *)
(* setStatusMessage, all in order.                                          *)
(***************************************************************************)
IdleRun ==
    [pc |-> "idle", f |-> NoFile,
     scaleIx |-> 0, qualIx |-> 0, encodes |-> <<>>,
     pageCount |-> 0, cursor |-> 0, end |-> 0, partNumber |-> 0, chunks |-> <<>>,
     single |-> FALSE, i |-> 0, chunkTexts |-> <<>>,
     calls |-> <<>>, got |-> <<>>, statuses |-> <<>>,
     sleeps |-> <<>>, wrote |-> Null, thrown |-> Null]

RunIds == 1..Max(MaxSelections, MaxRuns)

\* Throw that also shows the first fragment received as the result.
ThrowShowsPartial(r, run, msg) ==
    /\ runs' = [runs EXCEPT ![r] =
                  [run EXCEPT !.pc = "failed", !.thrown = Some(msg),
                              !.statuses = Append(run.statuses, Null),
                              !.wrote = Some(IF run.chunkTexts = <<>> THEN <<>>
                                             ELSE run.chunkTexts[1])]]
    /\ error' = Some(msg)
    /\ errorBy' = r
    /\ text' = IF run.chunkTexts = <<>> THEN <<>> ELSE run.chunkTexts[1]
    /\ textBy' = r
    /\ isProcessing' = FALSE
    /\ statusMessage' = Null
    /\ UNCHANGED <<served, file, effectPending, nDrops>>

\* Throw without the finally block.
ThrowSkipsFinally(r, run, msg) ==
    /\ runs' = [runs EXCEPT ![r] = [run EXCEPT !.pc = "failed", !.thrown = Some(msg)]]
    /\ error' = Some(msg)
    /\ errorBy' = r
    /\ UNCHANGED <<served, file, text, textBy, effectPending, nDrops, isProcessing, statusMessage>>

\* catch (err) { setError(err.message) } finally { setIsProcessing(false);
\* setStatusMessage(null) }, run r ending as `run`.
Throw(r, run, msg) ==
    /\ runs' = [runs EXCEPT ![r] = [run EXCEPT !.pc = "failed", !.thrown = Some(msg),
                                                !.statuses = Append(run.statuses, Null)]]
    /\ error' = Some(msg)
    /\ errorBy' = r
    /\ isProcessing' = FALSE
    /\ statusMessage' = Null
    /\ UNCHANGED <<served, file, text, textBy, effectPending, nDrops>>

\* setText(t); return; finally { setIsProcessing(false); setStatusMessage(null) }.
Return(r, run, t) ==
    /\ runs' = [runs EXCEPT ![r] = [run EXCEPT !.pc = "done", !.wrote = Some(t),
                                                !.statuses = Append(run.statuses, Null)]]
    /\ text' = t
    /\ textBy' = r
    /\ isProcessing' = FALSE
    /\ statusMessage' = Null
    /\ UNCHANGED <<served, file, error, errorBy, effectPending, nDrops>>

\* The run suspends at its next await as `run`, having set no state.
Await(r, run) ==
    /\ runs' = [runs EXCEPT ![r] = run]
    /\ UNCHANGED <<served, file, text, isProcessing, statusMessage, error, effectPending,
                   nDrops, textBy, errorBy>>

\* setStatusMessage(msg), then the run suspends at its next await as `run`.
AwaitWithStatus(r, run, msg) ==
    /\ runs' = [runs EXCEPT ![r] = [run EXCEPT !.statuses = Append(run.statuses, Some(msg))]]
    /\ statusMessage' = Some(msg)
    /\ UNCHANGED <<served, file, text, isProcessing, error, effectPending, nDrops,
                   textBy, errorBy>>

(***************************************************************************)
(* splitPdfForOcr.                                                          *)
(***************************************************************************)
\* The candidate the pending createPdfChunk call of `run` resolves to.
Candidate(run) ==
    CreatePdfChunk(run.f.body, run.cursor, run.end, run.f.name, run.partNumber)

\* MustShrink giving up at two pages instead of one.
MustShrinkStopsAtTwo(chunk, cursor, end) ==
    chunk.size > PDF_CHUNK_TARGET_BYTES /\ end - cursor > 2

\* while (chunk.size > PDF_CHUNK_TARGET_BYTES && end - cursor > 1)
MustShrink(chunk, cursor, end) ==
    chunk.size > PDF_CHUNK_TARGET_BYTES /\ end - cursor > 1

\* MustReject against the dropzone ceiling instead of the OCR limit.
MustRejectAboveCeiling(chunk) == chunk.size > DROPZONE_MAX_BYTES

\* if (chunk.size > OCR_PDF_LIMIT_BYTES) throw
MustReject(chunk) == chunk.size > OCR_PDF_LIMIT_BYTES

\* LoopHead with a window one page wider.
LoopHeadWiderWindow(run) ==
    IF run.cursor < run.pageCount
    THEN [run EXCEPT !.pc = "create",
                     !.end = Min(run.cursor + PDF_CHUNK_MAX_PAGES + 1, run.pageCount)]
    ELSE [run EXCEPT !.pc = "split_ret"]

\* while (cursor < pageCount) { let end = Math.min(cursor + PDF_CHUNK_MAX_PAGES,
\* pageCount); let chunk = await createPdfChunk(...) ... } return { chunks, pageCount }
LoopHead(run) ==
    IF run.cursor < run.pageCount
    THEN [run EXCEPT !.pc = "create",
                     !.end = Min(run.cursor + PDF_CHUNK_MAX_PAGES, run.pageCount)]
    ELSE [run EXCEPT !.pc = "split_ret"]

\* PDFDocument.load(bytes) throws.
SplitLoadFail(r) ==
    /\ runs[r].pc = "split_load"
    /\ ~runs[r].f.body.parses
    /\ Throw(r, runs[r], ErrPdfLoad)

\* const pageCount = source.getPageCount(); chunks = []; cursor = 0; partNumber = 1
SplitLoaded(r) ==
    /\ runs[r].pc = "split_load"
    /\ runs[r].f.body.parses
    /\ Await(r, LoopHead([runs[r] EXCEPT !.pageCount = runs[r].f.body.pageCount,
                                         !.chunks = <<>>, !.cursor = 0,
                                         !.partNumber = 1]))

\* SplitShrink counting the re-serialization as a part.
SplitShrinkCountsPart(r) ==
    /\ runs[r].pc = "create"
    /\ MustShrink(Candidate(runs[r]), runs[r].cursor, runs[r].end)
    /\ Await(r, [runs[r] EXCEPT !.end = runs[r].end - 1,
                                !.partNumber = runs[r].partNumber + 1])

\* SplitShrink re-serializing the same range.
SplitShrinkKeepsEnd(r) ==
    /\ runs[r].pc = "create"
    /\ MustShrink(Candidate(runs[r]), runs[r].cursor, runs[r].end)
    /\ Await(r, [runs[r] EXCEPT !.end = runs[r].end])

\* SplitShrink taking two pages off at a time, down to one page.
SplitShrinkByTwo(r) ==
    /\ runs[r].pc = "create"
    /\ MustShrink(Candidate(runs[r]), runs[r].cursor, runs[r].end)
    /\ Await(r, [runs[r] EXCEPT !.end = Max(runs[r].cursor + 1, runs[r].end - 2)])

\* end -= 1; chunk = await createPdfChunk(source, cursor, end, file.name, partNumber)
SplitShrink(r) ==
    /\ runs[r].pc = "create"
    /\ MustShrink(Candidate(runs[r]), runs[r].cursor, runs[r].end)
    /\ Await(r, [runs[r] EXCEPT !.end = runs[r].end - 1])

\* SplitReject giving up on the rest and returning the chunks accepted so far.
SplitRejectKeepsEarlier(r) ==
    /\ runs[r].pc = "create"
    /\ ~MustShrink(Candidate(runs[r]), runs[r].cursor, runs[r].end)
    /\ MustReject(Candidate(runs[r]))
    /\ Await(r, [runs[r] EXCEPT !.pc = "split_ret"])

\* throw new Error("A single PDF page exceeds the OCR API file size limit...")
SplitReject(r) ==
    /\ runs[r].pc = "create"
    /\ ~MustShrink(Candidate(runs[r]), runs[r].cursor, runs[r].end)
    /\ MustReject(Candidate(runs[r]))
    /\ Throw(r, runs[r], ErrSinglePage)

\* Accept with the cursor moved one page past the accepted end.
AcceptSkipsPage(run, chunk) ==
    [run EXCEPT !.chunks = Append(run.chunks, chunk),
                !.cursor = run.end + 1,
                !.partNumber = run.partNumber + 1]

\* chunks.push(chunk); cursor = end; partNumber += 1
Accept(run, chunk) ==
    [run EXCEPT !.chunks = Append(run.chunks, chunk),
                !.cursor = run.end,
                !.partNumber = run.partNumber + 1]

SplitAccept(r) ==
    /\ runs[r].pc = "create"
    /\ ~MustShrink(Candidate(runs[r]), runs[r].cursor, runs[r].end)
    /\ ~MustReject(Candidate(runs[r]))
    /\ Await(r, LoopHead(Accept(runs[r], Candidate(runs[r]))))

(***************************************************************************)
(* compressImageForOcr, and the submission of its result by processOCR.     *)
(***************************************************************************)
\* setStatusMessage(preparedImage.size === fileToProcess.size ? ... : ...);
\* await submitFileToOcr(preparedImage)
ImageSubmit(r, run, preparedImage) ==
    AwaitWithStatus(r,
        [run EXCEPT !.pc = "fetch", !.single = TRUE,
                    !.calls = Append(run.calls, preparedImage)],
        IF preparedImage.size = run.f.size THEN MsgProcessingImage
        ELSE MsgImageCompressed)

\* MustCompress with the pass-through limited to files below the limit.
MustCompressAtLimit(f) == f.size >= OCR_IMAGE_LIMIT_BYTES

\* if (file.size <= OCR_IMAGE_LIMIT_BYTES) return file
MustCompress(f) == f.size > OCR_IMAGE_LIMIT_BYTES

\* if (blob.size <= OCR_IMAGE_LIMIT_BYTES) return new File(...)
BlobFits(size) == size <= OCR_IMAGE_LIMIT_BYTES

ImagePass(r) ==
    /\ runs[r].pc = "compress"
    /\ ~MustCompress(runs[r].f)
    /\ ImageSubmit(r, runs[r], runs[r].f)

\* img.onerror = () => reject(new Error("Failed to decode image"))
ImageDecodeFail(r) ==
    /\ runs[r].pc = "compress"
    /\ MustCompress(runs[r].f)
    /\ ~runs[r].f.body.decodes
    /\ Throw(r, runs[r], ErrDecode)

\* EnterScale that does not restart the qualities.
EnterScaleKeepsQuality(r, run, s) ==
    \E ctx \in BOOLEAN :
        IF ctx
        THEN Await(r, [run EXCEPT !.pc = "encode", !.scaleIx = s,
                                  !.qualIx = Max(1, run.qualIx)])
        ELSE Throw(r, run, ErrCanvas)

\* The canvas of scales[s]: canvas.getContext("2d") is null, or the image is
\* drawn and canvasToBlob(canvas, qualities[1]) is awaited.
EnterScale(r, run, s) ==
    \E ctx \in BOOLEAN :
        IF ctx
        THEN Await(r, [run EXCEPT !.pc = "encode", !.scaleIx = s, !.qualIx = 1])
        ELSE Throw(r, run, ErrCanvas)

ImageDecoded(r) ==
    /\ runs[r].pc = "compress"
    /\ MustCompress(runs[r].f)
    /\ runs[r].f.body.decodes
    /\ EnterScale(r, runs[r], 1)

\* if (!blob) throw new Error("Could not encode compressed image")
EncodeFail(r) ==
    /\ runs[r].pc = "encode"
    /\ Throw(r, runs[r], ErrEncode)

\* The run after canvasToBlob(canvas, qualities[qualIx]) has produced a blob.
Encoded(run) == [run EXCEPT !.encodes = Append(run.encodes, <<run.scaleIx, run.qualIx>>)]

EncodeFits(r) ==
    /\ runs[r].pc = "encode"
    /\ BlobFits(EncodedBytes(runs[r].f.body, runs[r].scaleIx, runs[r].qualIx))
    /\ ImageSubmit(r, Encoded(runs[r]),
                   CompressedFile(runs[r].f, runs[r].scaleIx, runs[r].qualIx))

\* for (const quality of qualities): the next quality at the same scale.
EncodeNextQuality(r) ==
    /\ runs[r].pc = "encode"
    /\ ~BlobFits(EncodedBytes(runs[r].f.body, runs[r].scaleIx, runs[r].qualIx))
    /\ runs[r].qualIx < Len(qualities)
    /\ Await(r, [Encoded(runs[r]) EXCEPT !.qualIx = runs[r].qualIx + 1])

\* for (const scale of scales): the next scale, qualities from the start.
EncodeNextScale(r) ==
    /\ runs[r].pc = "encode"
    /\ ~BlobFits(EncodedBytes(runs[r].f.body, runs[r].scaleIx, runs[r].qualIx))
    /\ runs[r].qualIx = Len(qualities)
    /\ runs[r].scaleIx < Len(scales)
    /\ EnterScale(r, Encoded(runs[r]), runs[r].scaleIx + 1)

\* EncodeExhausted falling through with the last blob instead of throwing.
EncodeExhaustedSubmits(r) ==
    /\ runs[r].pc = "encode"
    /\ ~BlobFits(EncodedBytes(runs[r].f.body, runs[r].scaleIx, runs[r].qualIx))
    /\ runs[r].qualIx = Len(qualities)
    /\ runs[r].scaleIx = Len(scales)
    /\ ImageSubmit(r, Encoded(runs[r]),
                   CompressedFile(runs[r].f, runs[r].scaleIx, runs[r].qualIx))

\* throw new Error("Image is still too large after compression...")
EncodeExhausted(r) ==
    /\ runs[r].pc = "encode"
    /\ ~BlobFits(EncodedBytes(runs[r].f.body, runs[r].scaleIx, runs[r].qualIx))
    /\ runs[r].qualIx = Len(qualities)
    /\ runs[r].scaleIx = Len(scales)
    /\ Throw(r, Encoded(runs[r]), ErrStillTooLarge)

\* The compressor alone, applied to each image of CompressImages: run 1 has
\* called compressImageForOcr(f).
InitCompress ==
    /\ served = NoRequest
    /\ file = NoFile
    /\ text = <<>>
    /\ isProcessing = TRUE
    /\ statusMessage = Some(MsgPreparing)
    /\ error = Null
    /\ effectPending = FALSE
    /\ nDrops = 1
    /\ textBy = 0
    /\ errorBy = 0
    /\ \E f \in CompressImages :
          runs = [r \in RunIds |-> IF r = 1 THEN [IdleRun EXCEPT !.pc = "compress", !.f = f,
                                                                  !.statuses = <<Some(MsgPreparing)>>]
                                   ELSE IdleRun]

NextCompress ==
    \/ ImagePass(1)
    \/ ImageDecodeFail(1)
    \/ ImageDecoded(1)
    \/ EncodeFail(1)
    \/ EncodeFits(1)
    \/ EncodeNextQuality(1)
    \/ EncodeNextScale(1)
    \/ EncodeExhausted(1)

SpecCompress == InitCompress /\ [][NextCompress]_vars

(***************************************************************************)
(* The OCR boundary: POST /api/ocr (route.ts) and what answers in its place.*)
(* A response is [status, isJson, body]; a JSON body is                     *)
(* [kind |-> "json", text, error, code] (absent fields are Null), any other *)
(* body is [kind |-> "raw", tag, len]: len characters of the text `tag`.    *)
(***************************************************************************)
JsonBody(txt, err, code) == [kind |-> "json", text |-> txt, error |-> err, code |-> code]
RawBody(tag, len) == [kind |-> "raw", tag |-> tag, len |-> len]

\* NextResponse.json(body, { status })
JsonResponse(status, body) == [status |-> status, isJson |-> TRUE, body |-> body]

\* The characters of a raw text, as one token.
Chars(raw) == IF raw.len = 0 THEN <<>> ELSE <<raw.tag \o ":" \o ToString(raw.len)>>

\* s.length > max ? `${s.slice(0, max)}` and an ellipsis : s
Truncated(raw, max) ==
    IF raw.len > max THEN Chars([raw EXCEPT !.len = max]) \o <<"...">> ELSE Chars(raw)

RECURSIVE JoinWith(_, _)
\* parts.join(sep)
JoinWith(parts, sep) ==
    IF Len(parts) = 0 THEN <<>>
    ELSE IF Len(parts) = 1 THEN parts[1]
    ELSE parts[1] \o sep \o JoinWith(Tail(parts), sep)

RECURSIVE Label(_)
\* A file name as one token.
Label(name) ==
    IF Len(name) = 0 THEN ""
    ELSE IF Len(name) = 1 THEN name[1]
    ELSE name[1] \o "." \o Label(Tail(name))

\* The markdown the OCR service extracts from f.
OcrText(f) == <<"md(" \o Label(f.name) \o ")">>

\* const maxSize = file.type === 'application/pdf' ? MAX_PDF_SIZE_BYTES : MAX_IMAGE_SIZE_BYTES
MaxSize(f) == IF IsPdfType(f.type) THEN MAX_PDF_SIZE_BYTES ELSE MAX_IMAGE_SIZE_BYTES

\* ext.toLowerCase(), on the extensions that occur.
Lower(ext) ==
    CASE ext = "PDF" -> "pdf"
      [] ext = "PNG" -> "png"
      [] ext = "JPG" -> "jpg"
      [] OTHER -> ext

\* let mimeType = file.type; if (!mimeType || mimeType === 'application/octet-stream')
\* the type is looked up by file.name.split('.').pop()?.toLowerCase(),
\* 'image/png' by default.
MimeType(f) ==
    IF f.type = <<"">> \/ f.type = <<"application", "octet-stream">>
    THEN LET ext == IF Len(f.name) = 0 THEN "" ELSE Lower(Last(f.name))
         IN  CASE ext = "png" -> <<"image", "png">>
               [] ext \in {"jpg", "jpeg"} -> <<"image", "jpeg">>
               [] ext = "webp" -> <<"image", "webp">>
               [] ext = "pdf" -> <<"application", "pdf">>
               [] OTHER -> <<"image", "png">>
    ELSE f.type

\* The upstream error mapping: errorMessage || safeErrorText || 'OCR processing failed'
UpstreamError(up) ==
    LET errorMessage == IF up.body.kind = "json" THEN up.body.error ELSE Null
        safeErrorText == IF up.body.kind = "raw"
                         THEN Truncated(up.body, MAX_ERROR_TEXT_LENGTH)
                         ELSE <<"{json}">>
    IN  IF errorMessage.some /\ errorMessage.val # <<>> THEN errorMessage.val
        ELSE IF safeErrorText # <<>> THEN safeErrorText
        ELSE <<"OCR processing failed">>

\* A request whose body request.formData() cannot parse.
Unparsed == [some |-> FALSE, val |-> <<"unparsed">>]

\* catch (error) { return NextResponse.json({ error: error.message }, { status: 500 }) }
Caught(message) == JsonResponse(500, JsonBody(Null, Some(message), Null))

\* What the route did with a request: maxSize is the limit it compared the
\* size with (0 when it did not get that far), forwarded the media type and
\* size of the file it sent to the OCR service (Null when it sent none).
Handled(maxSize, forwarded, response) ==
    [maxSize |-> maxSize, forwarded |-> forwarded, response |-> response]

\* POST that does not look for the API key.
POSTWithoutKeyCheck(upload, apiKey, up) ==
    IF upload = Unparsed
    THEN Handled(0, Null, Caught(<<"Failed to parse body as FormData.">>))
    ELSE IF ~upload.some
    THEN Handled(0, Null, JsonResponse(400, JsonBody(Null, Some(<<"No file provided">>), Null)))
    ELSE LET f == upload.val
             sent == Some([mimeType |-> MimeType(f), size |-> f.size])
         IN  IF f.size > MaxSize(f)
             THEN Handled(MaxSize(f), Null,
                     JsonResponse(400,
                        JsonBody(Null,
                                 Some(<<"File too large. Maximum size is ",
                                        IF IsPdfType(f.type) THEN "50MB" ELSE "10MB">>),
                                 Some(<<"FILE_TOO_LARGE">>))))
             ELSE IF up.kind = "throw"
             THEN Handled(MaxSize(f), sent, Caught(<<"fetch failed">>))
             ELSE IF up.kind = "error"
             THEN Handled(MaxSize(f), sent,
                     JsonResponse(up.status,
                        JsonBody(Null, Some(UpstreamError(up)), Some(<<"OCR_API_ERROR">>))))
             ELSE IF up.kind = "garbled"
             THEN Handled(MaxSize(f), sent, Caught(<<"Unexpected token < in JSON">>))
             ELSE Handled(MaxSize(f), sent,
                     JsonResponse(200,
                        JsonBody(Some(IF up.md.some THEN up.md.val ELSE <<>>), Null, Null)))

\* POST(request): upload is the "file" part of the form (Null when missing,
\* Unparsed when formData() throws), apiKey whether ZAI_API_KEY is set, up
\* what the upstream call does:
\*   [kind |-> "ok", md]: 2xx with md_results = md (Null when missing);
\*   [kind |-> "error", status, body]: a non-2xx answer;
\*   [kind |-> "garbled"]: 2xx with a body ocrResponse.json() cannot parse;
\*   [kind |-> "throw"]: fetch throws.
POST(upload, apiKey, up) ==
    IF upload = Unparsed
    THEN Handled(0, Null, Caught(<<"Failed to parse body as FormData.">>))
    ELSE IF ~upload.some
    THEN Handled(0, Null, JsonResponse(400, JsonBody(Null, Some(<<"No file provided">>), Null)))
    ELSE LET f == upload.val
             sent == Some([mimeType |-> MimeType(f), size |-> f.size])
         IN  IF f.size > MaxSize(f)
             THEN Handled(MaxSize(f), Null,
                     JsonResponse(400,
                        JsonBody(Null,
                                 Some(<<"File too large. Maximum size is ",
                                        IF IsPdfType(f.type) THEN "50MB" ELSE "10MB">>),
                                 Some(<<"FILE_TOO_LARGE">>))))
             ELSE IF ~apiKey
             THEN Handled(MaxSize(f), Null,
                     JsonResponse(500, JsonBody(Null, Some(<<"API key not configured">>), Null)))
             ELSE IF up.kind = "throw"
             THEN Handled(MaxSize(f), sent, Caught(<<"fetch failed">>))
             ELSE IF up.kind = "error"
             THEN Handled(MaxSize(f), sent,
                     JsonResponse(up.status,
                        JsonBody(Null, Some(UpstreamError(up)), Some(<<"OCR_API_ERROR">>))))
             ELSE IF up.kind = "garbled"
             THEN Handled(MaxSize(f), sent, Caught(<<"Unexpected token < in JSON">>))
             ELSE Handled(MaxSize(f), sent,
                     JsonResponse(200,
                        JsonBody(Some(IF up.md.some THEN up.md.val ELSE <<>>), Null, Null)))

\* The response of POST.
PostRoute(upload, apiKey, up) == POST(upload, apiKey, up).response

\* The upstream behaviours the pipeline is run against.
Upstreams(f) ==
    {[kind |-> "ok", md |-> Some(OcrText(f))],
     [kind |-> "ok", md |-> Null],
     [kind |-> "error", status |-> 500,
      body |-> JsonBody(Null, Some(<<"upstream exploded">>), Null)]}

\* What a fetch("/api/ocr") of f resolves to on the page: the route's answer,
\* or the error page of a gateway in front of it.
Responses(f) ==
    {PostRoute(Some(f), TRUE, up) : up \in Upstreams(f)}
    \cup {[status |-> 502, isJson |-> FALSE, body |-> RawBody("<html>", 120)]}

\* SubmitFileToOcr with the status hint left out of the message.
SubmitFileToOcrNoHint(response) ==
    LET nonJsonError ==
            <<"Non-JSON response: ">> \o
            (IF response.body.kind = "raw"
             THEN Truncated(response.body, MAX_ERROR_BODY_LENGTH)
             ELSE <<"{json}">>)
        data == IF response.isJson /\ response.body.kind = "json"
                THEN [text |-> response.body.text, error |-> response.body.error]
                ELSE [text |-> Null, error |-> Some(nonJsonError)]
    IN  IF ~(200 <= response.status /\ response.status <= 299)
        THEN [ok |-> FALSE, text |-> <<>>,
              message |-> IF data.error.some /\ data.error.val # <<>>
                          THEN data.error.val
                          ELSE <<"OCR processing failed">>]
        ELSE [ok |-> TRUE, message |-> <<>>,
              text |-> IF data.text.some THEN data.text.val ELSE <<>>]

\* response.ok
Ok(response) == 200 <= response.status /\ response.status <= 299

\* submitFileToOcr after the response: [ok, text] or [ok, message] (thrown).
SubmitFileToOcr(response) ==
    LET nonJsonError ==
            <<"Non-JSON response: ">> \o
            (IF response.body.kind = "raw"
             THEN Truncated(response.body, MAX_ERROR_BODY_LENGTH)
             ELSE <<"{json}">>)
        data == IF response.isJson /\ response.body.kind = "json"
                THEN [text |-> response.body.text, error |-> response.body.error]
                ELSE [text |-> Null, error |-> Some(nonJsonError)]
        statusHint == <<" (HTTP ", ToString(response.status), ")">>
    IN  IF ~Ok(response)
        THEN [ok |-> FALSE, text |-> <<>>,
              message |-> (IF data.error.some /\ data.error.val # <<>>
                           THEN data.error.val
                           ELSE <<"OCR processing failed">>) \o statusHint]
        ELSE [ok |-> TRUE, message |-> <<>>,
              text |-> IF data.text.some THEN data.text.val ELSE <<>>]

\* chunkTexts.filter(Boolean).join("\n\n")
Filter(texts) == SelectSeq(texts, LAMBDA t : t # <<>>)

RECURSIVE Reverse(_)
Reverse(seq) == IF seq = <<>> THEN <<>> ELSE Append(Reverse(Tail(seq)), Head(seq))

\* Merge without the filter.
MergeKeepsEmpty(texts) == JoinWith(texts, <<"\n\n">>)

\* Merge with the fragments in the order of arrival of a stack.
MergeReversed(texts) == JoinWith(Reverse(Filter(texts)), <<"\n\n">>)

Merge(texts) == JoinWith(Filter(texts), <<"\n\n">>)

(***************************************************************************)
(* processOCR.                                                              *)
(***************************************************************************)
\* fetch rejects: submitFileToOcr throws.
FetchReject(r) ==
    /\ runs[r].pc = "fetch"
    /\ Throw(r, runs[r], ErrFetch)

\* The file of the submission the run is waiting for.
Sent(run) == IF run.calls = <<>> THEN NoFile ELSE Last(run.calls)

\* The run after its pending fetch has resolved to response.
Received(run, response) == [run EXCEPT !.got = Append(run.got, response)]

\* FetchFail sending the same file again instead of throwing.
FetchFailRetries(r, responses) ==
    /\ runs[r].pc = "fetch"
    /\ \E response \in responses :
          /\ ~SubmitFileToOcr(response).ok
          /\ Await(r, [Received(runs[r], response) EXCEPT
                          !.calls = Append(runs[r].calls, Sent(runs[r]))])

\* if (!response.ok) throw new Error((data.error || "OCR processing failed") + statusHint),
\* for a response among `responses`.
FetchFail(r, responses) ==
    /\ runs[r].pc = "fetch"
    /\ \E response \in responses :
          /\ ~SubmitFileToOcr(response).ok
          /\ Throw(r, Received(runs[r], response), SubmitFileToOcr(response).message)

\* const imageText = await submitFileToOcr(preparedImage); setText(imageText); return
\* and the same for the PDF submitted whole.
FetchSingleOk(r, responses) ==
    /\ runs[r].pc = "fetch"
    /\ runs[r].single
    /\ \E response \in responses :
          /\ SubmitFileToOcr(response).ok
          /\ Return(r, Received(runs[r], response), SubmitFileToOcr(response).text)

\* FetchChunkOk going on to the next chunk without the pause.
FetchChunkOkNoPause(r, responses) ==
    /\ runs[r].pc = "fetch"
    /\ ~runs[r].single
    /\ runs[r].i < Len(runs[r].chunks) - 1
    /\ \E response \in responses :
          /\ SubmitFileToOcr(response).ok
          /\ AwaitWithStatus(r,
                [Received(runs[r], response) EXCEPT
                    !.i = runs[r].i + 1,
                    !.calls = Append(runs[r].calls, runs[r].chunks[runs[r].i + 2]),
                    !.chunkTexts = Append(runs[r].chunkTexts,
                                          SubmitFileToOcr(response).text)],
                MsgChunk(runs[r].i + 2, Len(runs[r].chunks)))

\* chunkTexts.push(chunkText); if (i < chunks.length - 1) await sleep(250)
FetchChunkOk(r, responses) ==
    /\ runs[r].pc = "fetch"
    /\ ~runs[r].single
    /\ runs[r].i < Len(runs[r].chunks) - 1
    /\ \E response \in responses :
          /\ SubmitFileToOcr(response).ok
          /\ Await(r, [Received(runs[r], response) EXCEPT !.pc = "sleep",
                          !.sleeps = Append(runs[r].sleeps, SLEEP_MS),
                          !.chunkTexts = Append(runs[r].chunkTexts,
                                                SubmitFileToOcr(response).text)])

\* The last chunk: the loop ends; setText(chunkTexts.filter(Boolean).join("\n\n")); return
FetchLastChunkOk(r, responses) ==
    /\ runs[r].pc = "fetch"
    /\ ~runs[r].single
    /\ runs[r].i >= Len(runs[r].chunks) - 1
    /\ \E response \in responses :
          /\ SubmitFileToOcr(response).ok
          /\ LET texts == Append(runs[r].chunkTexts, SubmitFileToOcr(response).text)
             IN  Return(r, [Received(runs[r], response) EXCEPT !.chunkTexts = texts,
                                                               !.i = runs[r].i + 1],
                        Merge(texts))

\* ChunkSubmit showing the 0-based index.
ChunkSubmitZeroBased(r, run, i) ==
    AwaitWithStatus(r,
        [run EXCEPT !.pc = "fetch", !.single = FALSE, !.i = i,
                    !.calls = Append(run.calls, run.chunks[i + 1])],
        MsgChunk(i, Len(run.chunks)))

\* setStatusMessage(`Processing PDF chunk ${i + 1}/${chunks.length}...`);
\* await submitFileToOcr(chunks[i]), for the 0-based i.
ChunkSubmit(r, run, i) ==
    AwaitWithStatus(r,
        [run EXCEPT !.pc = "fetch", !.single = FALSE, !.i = i,
                    !.calls = Append(run.calls, run.chunks[i + 1])],
        MsgChunk(i + 1, Len(run.chunks)))

\* sleep(250) is over: i += 1 and the next chunk is submitted.
SleepDone(r) ==
    /\ runs[r].pc = "sleep"
    /\ ChunkSubmit(r, runs[r], runs[r].i + 1)

\* if (pageCount > OCR_PDF_PAGE_LIMIT) setStatusMessage(`PDF has ${pageCount}
\* pages. Processing ${chunks.length} chunks...`): replaced in the same turn.
Announced(run) ==
    IF run.pageCount > OCR_PDF_PAGE_LIMIT
    THEN [run EXCEPT !.statuses =
             Append(run.statuses, Some(MsgPageCount(run.pageCount, Len(run.chunks))))]
    ELSE run

\* SplitReturned submitting all the chunks at once and awaiting them together.
SplitReturnedSubmitsAll(r) ==
    /\ runs[r].pc = "split_ret"
    /\ IF Len(runs[r].chunks) > 0
       THEN AwaitWithStatus(r,
               [Announced(runs[r]) EXCEPT !.pc = "fetch", !.single = FALSE,
                                          !.i = Len(runs[r].chunks) - 1,
                                          !.calls = runs[r].chunks],
               MsgChunk(1, Len(runs[r].chunks)))
       ELSE Return(r, [Announced(runs[r]) EXCEPT !.single = FALSE], Merge(<<>>))

\* const { chunks, pageCount } = await splitPdfForOcr(fileToProcess): the chunk
\* loop starts, or with no chunk at all setText("") ends the run.
SplitReturned(r) ==
    /\ runs[r].pc = "split_ret"
    /\ IF Len(runs[r].chunks) > 0
       THEN ChunkSubmit(r, Announced(runs[r]), 0)
       ELSE Return(r, [Announced(runs[r]) EXCEPT !.single = FALSE], Merge(<<>>))

\* needsSplitBySize is false: PDFDocument.load(pdfBytes) throws.
ProbeFail(r) ==
    /\ runs[r].pc = "probe"
    /\ ~runs[r].f.body.parses
    /\ Throw(r, runs[r], ErrPdfLoad)

\* WithinPageLimit with a strict comparison.
WithinPageLimitStrict(pageCount) == pageCount < OCR_PDF_PAGE_LIMIT

\* if (pageCount <= OCR_PDF_PAGE_LIMIT)
WithinPageLimit(pageCount) == pageCount <= OCR_PDF_PAGE_LIMIT

\* const needsSplitBySize = fileToProcess.size > OCR_PDF_LIMIT_BYTES
NeedsSplitBySize(f) == f.size > OCR_PDF_LIMIT_BYTES

\* setStatusMessage("Processing PDF..."); await submitFileToOcr(fileToProcess)
ProbeFast(r) ==
    /\ runs[r].pc = "probe"
    /\ runs[r].f.body.parses
    /\ WithinPageLimit(runs[r].f.body.pageCount)
    /\ AwaitWithStatus(r,
          [runs[r] EXCEPT !.pc = "fetch", !.single = TRUE,
                          !.pageCount = runs[r].f.body.pageCount,
                          !.calls = Append(runs[r].calls, runs[r].f)],
          MsgProcessingPdf)

\* More than OCR_PDF_PAGE_LIMIT pages: setStatusMessage("Splitting PDF into
\* OCR-safe chunks..."); await splitPdfForOcr(fileToProcess)
ProbeSplit(r) ==
    /\ runs[r].pc = "probe"
    /\ runs[r].f.body.parses
    /\ ~WithinPageLimit(runs[r].f.body.pageCount)
    /\ AwaitWithStatus(r, [runs[r] EXCEPT !.pc = "split_load"], MsgSplitting)

(***************************************************************************)
(* The page: the dropzone, the Clear button and the [file] effect.          *)
(***************************************************************************)
\* useDropzone({ accept: { "image/*": [".png", ".jpg", ".jpeg", ".webp"],
\* "application/pdf": [".pdf"] }, maxSize: DROPZONE_MAX_BYTES }): a file is
\* accepted by its type or by its extension, up to maxSize.
Accepted(f) ==
    /\ f.size <= DROPZONE_MAX_BYTES
    /\ \/ IsImageType(f.type)
       \/ IsPdfType(f.type)
       \/ Len(f.name) > 1 /\ Last(f.name) \in {"png", "jpg", "jpeg", "webp", "pdf"}

\* The files offered to the dropzone.
UiFiles ==
    {Raster(<<"scan", "png">>, 2 * MiB, TRUE, {}, 3 * MiB),
     Raster(<<"scan", "png">>, OCR_IMAGE_LIMIT_BYTES, TRUE, {}, 3 * MiB),
     Raster(<<"scan", "png">>, 12 * MiB, TRUE, {<<2, 1>>}, OCR_IMAGE_LIMIT_BYTES),
     Raster(<<"scan", "png">>, 12 * MiB, TRUE, {}, 3 * MiB),
     Raster(<<"scan", "png">>, 12 * MiB, FALSE, {}, 3 * MiB),
     Pdf(<<"book", "pdf">>, OCR_PDF_LIMIT_BYTES, TRUE, OCR_PDF_PAGE_LIMIT, MiB \div 2, 0, {}),
     Pdf(<<"book", "pdf">>, 7 * MiB, TRUE, OCR_PDF_PAGE_LIMIT + 1, MiB \div 16, 0, {}),
     Pdf(<<"book">>, OCR_PDF_LIMIT_BYTES + 1, TRUE, 2, 25 * MiB, 0, {}),
     Pdf(<<"book", "pdf">>, 80 * MiB, TRUE, 2, 30 * MiB, OCR_PDF_LIMIT_BYTES - 5 * 256, {1}),
     Pdf(<<"book", "pdf">>, 85 * MiB, TRUE, 2, 30 * MiB, 55 * MiB, {1}),
     Pdf(<<"book", "pdf">>, 60 * MiB, TRUE, 0, 0, 0, {}),
     Pdf(<<"my", "book", "PDF">>, 80 * MiB, TRUE, 4, 20 * MiB, 0, {}),
     Pdf(<<"book", "pdf">>, 3 * MiB, FALSE, 0, 0, 0, {}),
     Pdf(<<"book", "pdf">>, 60 * MiB, FALSE, 0, 0, 0, {}),
     Opaque(<<"notes", "pdf">>, <<"">>, MiB),
     Opaque(<<"notes", "txt">>, <<"text", "plain">>, MiB),
     Pdf(<<"book", "pdf">>, DROPZONE_MAX_BYTES + 1, TRUE, 3, 30 * MiB, 0, {})}

\* OnDrop that only sets the file.
OnDropKeepsResult(f, limit) ==
    /\ file = NoFile
    /\ ~effectPending
    /\ nDrops < limit
    /\ Accepted(f)
    /\ file' = f
    /\ effectPending' = TRUE
    /\ nDrops' = nDrops + 1
    /\ UNCHANGED <<served, text, textBy, error, errorBy, isProcessing, statusMessage, runs>>

\* onDrop(acceptedFiles) with the accepted file f: setFile(f); setError(null);
\* setText(""). The dropzone is rendered only while no file is selected.
OnDrop(f, limit) ==
    /\ file = NoFile
    /\ ~effectPending
    /\ nDrops < limit
    /\ Accepted(f)
    /\ file' = f
    /\ error' = Null
    /\ errorBy' = 0
    /\ text' = <<>>
    /\ textBy' = 0
    /\ effectPending' = TRUE
    /\ nDrops' = nDrops + 1
    /\ UNCHANGED <<served, isProcessing, statusMessage, runs>>

\* onDrop([]): the dropzone rejected f, selectedFile is undefined.
OnDropRejected(f) ==
    /\ file = NoFile
    /\ ~effectPending
    /\ ~Accepted(f)
    /\ UNCHANGED vars

\* clearAll: setFile(null); setPreview(null); setText(""); setStatusMessage(null);
\* setError(null). The button is rendered only while a file is selected.
ClearAll ==
    /\ file # NoFile
    /\ ~effectPending
    /\ file' = NoFile
    /\ text' = <<>>
    /\ textBy' = 0
    /\ statusMessage' = Null
    /\ error' = Null
    /\ errorBy' = 0
    /\ effectPending' = TRUE
    /\ UNCHANGED <<served, isProcessing, nDrops, runs>>

\* useEffect(() => { void processOCR(file) }, [file]) with file === null:
\* if (!fileToProcess) return
EffectNull ==
    /\ effectPending
    /\ file = NoFile
    /\ effectPending' = FALSE
    /\ UNCHANGED <<served, file, text, isProcessing, statusMessage, error, nDrops, runs,
                   textBy, errorBy>>

\* processOCR(file) up to its first await: setIsProcessing(true);
\* setStatusMessage("Preparing file..."); setError(null), then the calls of
\* setStatusMessage in `more`, suspended as `run`. The calls of one turn are
\* batched: the last value is the one committed.
Start(r, run, more) ==
    /\ effectPending' = FALSE
    /\ runs' = [runs EXCEPT ![r] = [run EXCEPT !.statuses = <<Some(MsgPreparing)>> \o more]]
    /\ isProcessing' = TRUE
    /\ statusMessage' = Last(<<Some(MsgPreparing)>> \o more)
    /\ error' = Null
    /\ errorBy' = r
    /\ UNCHANGED <<served, file, text, textBy, nDrops>>

\* if (fileToProcess.type.startsWith("image/")) await compressImageForOcr(fileToProcess)
EffectImage ==
    /\ effectPending
    /\ file # NoFile
    /\ IsImageType(file.type)
    /\ Start(nDrops, [IdleRun EXCEPT !.pc = "compress", !.f = file], <<>>)

\* A PDF within the byte limit: await fileToProcess.arrayBuffer(); await PDFDocument.load
EffectPdfProbe ==
    /\ effectPending
    /\ file # NoFile
    /\ ~IsImageType(file.type)
    /\ IsPdfType(file.type)
    /\ ~NeedsSplitBySize(file)
    /\ Start(nDrops, [IdleRun EXCEPT !.pc = "probe", !.f = file], <<>>)

\* A PDF over the byte limit: setStatusMessage("Splitting PDF into OCR-safe
\* chunks..."); await splitPdfForOcr(fileToProcess)
EffectPdfSplit ==
    /\ effectPending
    /\ file # NoFile
    /\ ~IsImageType(file.type)
    /\ IsPdfType(file.type)
    /\ NeedsSplitBySize(file)
    /\ Start(nDrops, [IdleRun EXCEPT !.pc = "split_load", !.f = file],
             <<Some(MsgSplitting)>>)

\* EffectUnsupported submitting the file as it is instead of throwing.
EffectUnsupportedSubmits ==
    /\ effectPending
    /\ file # NoFile
    /\ ~IsImageType(file.type)
    /\ ~IsPdfType(file.type)
    /\ Start(nDrops, [IdleRun EXCEPT !.pc = "fetch", !.f = file, !.single = TRUE,
                                     !.calls = <<file>>], <<>>)

\* throw new Error("Unsupported file type..."): caught before any await, so
\* the catch and finally blocks run in the same turn as the three calls that
\* start processOCR.
EffectUnsupported ==
    /\ effectPending
    /\ file # NoFile
    /\ ~IsImageType(file.type)
    /\ ~IsPdfType(file.type)
    /\ effectPending' = FALSE
    /\ runs' = [runs EXCEPT ![nDrops] = [IdleRun EXCEPT !.pc = "failed", !.f = file,
                                                        !.statuses = <<Some(MsgPreparing), Null>>,
                                                        !.thrown = Some(ErrUnsupported)]]
    /\ isProcessing' = FALSE
    /\ statusMessage' = Null
    /\ error' = Some(ErrUnsupported)
    /\ errorBy' = nDrops
    /\ UNCHANGED <<served, file, text, textBy, nDrops>>

Init ==
    /\ served = NoRequest
    /\ file = NoFile
    /\ text = <<>>
    /\ isProcessing = FALSE
    /\ statusMessage = Null
    /\ error = Null
    /\ effectPending = TRUE
    /\ nDrops = 0
    /\ runs = [r \in RunIds |-> IdleRun]
    /\ textBy = 0
    /\ errorBy = 0

Step(r) ==
    \/ ImagePass(r)
    \/ ImageDecodeFail(r)
    \/ ImageDecoded(r)
    \/ EncodeFail(r)
    \/ EncodeFits(r)
    \/ EncodeNextQuality(r)
    \/ EncodeNextScale(r)
    \/ EncodeExhausted(r)
    \/ ProbeFail(r)
    \/ ProbeFast(r)
    \/ ProbeSplit(r)
    \/ SplitLoadFail(r)
    \/ SplitLoaded(r)
    \/ SplitShrink(r)
    \/ SplitReject(r)
    \/ SplitAccept(r)
    \/ SplitReturned(r)
    \/ FetchReject(r)
    \/ FetchFail(r, Responses(Sent(runs[r])))
    \/ FetchSingleOk(r, Responses(Sent(runs[r])))
    \/ FetchChunkOk(r, Responses(Sent(runs[r])))
    \/ FetchLastChunkOk(r, Responses(Sent(runs[r])))
    \/ SleepDone(r)

Next ==
    \/ \E f \in UiFiles : OnDrop(f, MaxSelections)
    \/ \E f \in UiFiles : OnDropRejected(f)
    \/ ClearAll
    \/ EffectNull
    \/ EffectImage
    \/ EffectPdfProbe
    \/ EffectPdfSplit
    \/ EffectUnsupported
    \/ \E r \in RunIds : Step(r)

Spec == Init /\ [][Next]_vars

\* The page with several selections in one session, so that runs overlap, on
\* the files of RaceFiles; the steps left out are those no run of these files
\* can take.
RaceFiles ==
    {Raster(<<"scan", "png">>, 2 * MiB, TRUE, {}, 3 * MiB),
     Pdf(<<"book", "pdf">>, 60 * MiB, TRUE, 2, 30 * MiB, 0, {}),
     Opaque(<<"notes", "pdf">>, <<"">>, MiB),
     Pdf(<<"book", "pdf">>, DROPZONE_MAX_BYTES + 1, TRUE, 3, 30 * MiB, 0, {})}

RaceStep(r) ==
    \/ ImagePass(r)
    \/ SplitLoaded(r)
    \/ SplitShrink(r)
    \/ SplitAccept(r)
    \/ SplitReturned(r)
    \/ FetchReject(r)
    \/ FetchFail(r, Responses(Sent(runs[r])))
    \/ FetchSingleOk(r, Responses(Sent(runs[r])))
    \/ FetchChunkOk(r, Responses(Sent(runs[r])))
    \/ FetchLastChunkOk(r, Responses(Sent(runs[r])))
    \/ SleepDone(r)

NextRace ==
    \/ \E f \in RaceFiles : OnDrop(f, MaxRuns)
    \/ \E f \in RaceFiles : OnDropRejected(f)
    \/ ClearAll
    \/ EffectNull
    \/ EffectImage
    \/ EffectPdfSplit
    \/ EffectUnsupported
    \/ \E r \in RunIds : RaceStep(r)

SpecRace == Init /\ [][NextRace]_vars

(***************************************************************************)
(* The page under its scheduling: several selections in one session, an    *)
(* image submitted as it is, a PDF split in two chunks and a file of an    *)
(* unsupported type, against a boundary that answers with the text or with *)
(* an error, or cannot be reached.                                          *)
(***************************************************************************)
LiveFiles ==
    {Raster(<<"scan", "png">>, 2 * MiB, TRUE, {}, 3 * MiB),
     Pdf(<<"book", "pdf">>, 60 * MiB, TRUE, 2, 30 * MiB, 0, {}),
     Opaque(<<"notes", "pdf">>, <<"">>, MiB)}

LiveResponses(f) ==
    {PostRoute(Some(f), TRUE, up) : up \in {u \in Upstreams(f) : u.kind = "error" \/ u.md.some}}

LiveStep(r) ==
    \/ ImagePass(r)
    \/ SplitLoaded(r)
    \/ SplitShrink(r)
    \/ SplitAccept(r)
    \/ SplitReturned(r)
    \/ FetchReject(r)
    \/ FetchFail(r, LiveResponses(Sent(runs[r])))
    \/ FetchSingleOk(r, LiveResponses(Sent(runs[r])))
    \/ FetchChunkOk(r, LiveResponses(Sent(runs[r])))
    \/ FetchLastChunkOk(r, LiveResponses(Sent(runs[r])))
    \/ SleepDone(r)

\* The [file] effect of a commit, whichever branch of processOCR it takes.
LiveEffect == EffectNull \/ EffectImage \/ EffectPdfSplit \/ EffectUnsupported

NextLive ==
    \/ \E f \in LiveFiles : OnDrop(f, MaxRuns)
    \/ ClearAll
    \/ EffectNull
    \/ EffectImage
    \/ EffectPdfSplit
    \/ EffectUnsupported
    \/ \E r \in RunIds : LiveStep(r)

\* React runs the effect of every commit, and the continuation of an await
\* runs once its promise has settled, every fetch, timer and pdf-lib call
\* settling at some time. The user is free never to drop or clear anything.
SpecLive ==
    /\ Init
    /\ [][NextLive]_vars
    /\ WF_vars(LiveEffect)
    /\ \A r \in RunIds : WF_vars(LiveStep(r))

\* The splitter alone, applied to each PDF of SplitPdfs: run 1 has called
\* splitPdfForOcr(f) and is left at the await of its result.
InitSplit ==
    /\ served = NoRequest
    /\ file = NoFile
    /\ text = <<>>
    /\ isProcessing = TRUE
    /\ statusMessage = Some(MsgSplitting)
    /\ error = Null
    /\ effectPending = FALSE
    /\ nDrops = 1
    /\ textBy = 0
    /\ errorBy = 0
    /\ \E f \in SplitPdfs :
          runs = [r \in RunIds |-> IF r = 1 THEN [IdleRun EXCEPT !.pc = "split_load", !.f = f,
                                                  !.statuses = <<Some(MsgPreparing), Some(MsgSplitting)>>]
                                   ELSE IdleRun]

NextSplit ==
    \/ SplitLoadFail(1)
    \/ SplitLoaded(1)
    \/ SplitShrink(1)
    \/ SplitReject(1)
    \/ SplitAccept(1)

SpecSplit == InitSplit /\ [][NextSplit]_vars

\* The splitter with every pdf-lib call (load, copyPages, save) settling at
\* some time, so that the continuation of its await runs.
SpecSplitFair == InitSplit /\ [][NextSplit]_vars /\ WF_vars(NextSplit)

(***************************************************************************)
(* One submission against every answer of the boundary.                     *)
(***************************************************************************)
\* Non-2xx answers of the OCR service: a JSON body with a message, without
\* one or with an empty one, and text bodies that are empty, short, exactly
\* MAX_ERROR_TEXT_LENGTH characters long and one more.
UpstreamFailures ==
    {[kind |-> "error", status |-> st, body |-> b] :
        st \in {401, 429, 500},
        b \in {JsonBody(Null, Some(<<"quota exceeded">>), Null),
               JsonBody(Null, Some(<<>>), Null),
               JsonBody(Null, Null, Null),
               RawBody("upstream", 0),
               RawBody("upstream", 120),
               RawBody("upstream", MAX_ERROR_TEXT_LENGTH),
               RawBody("upstream", MAX_ERROR_TEXT_LENGTH + 1)}}
    \cup {[kind |-> "throw"]}

\* Answers that do not come from the route: pages of a gateway or of the
\* framework (text bodies that are empty, short, exactly MAX_ERROR_BODY_LENGTH
\* characters long and one more), a body announced as JSON that does not
\* parse, JSON sent without the JSON content type, and JSON without an error.
ForeignResponses ==
    {[status |-> st, isJson |-> FALSE, body |-> RawBody("<html>", len)] :
        st \in {200, 404, 502},
        len \in {0, 120, MAX_ERROR_BODY_LENGTH, MAX_ERROR_BODY_LENGTH + 1}}
    \cup {[status |-> st, isJson |-> TRUE, body |-> RawBody("{oops", 12)] : st \in {200, 500}}
    \cup {[status |-> 500, isJson |-> FALSE,
           body |-> JsonBody(Null, Some(<<"quota exceeded">>), Null)],
          [status |-> 503, isJson |-> TRUE, body |-> JsonBody(Null, Null, Null)]}

\* What a fetch("/api/ocr") of f can resolve to.
SubmitResponses(f) ==
    {PostRoute(Some(f), apiKey, up) :
        apiKey \in BOOLEAN, up \in Upstreams(f) \cup UpstreamFailures}
    \cup ForeignResponses

\* Files that are submitted as they are.
SubmitFiles ==
    {Raster(<<"scan", "png">>, 2 * MiB, TRUE, {}, 3 * MiB),
     Raster(<<"scan", "png">>, OCR_IMAGE_LIMIT_BYTES, TRUE, {}, 3 * MiB),
     Pdf(<<"book", "pdf">>, 3 * MiB, TRUE, 3, MiB, 0, {}),
     Pdf(<<"book", "pdf">>, OCR_PDF_LIMIT_BYTES, TRUE, OCR_PDF_PAGE_LIMIT, MiB \div 2, 0, {})}

\* processOCR(f) has started for a file of SubmitFiles.
InitSubmit ==
    /\ served = NoRequest
    /\ text = <<>>
    /\ isProcessing = TRUE
    /\ statusMessage = Some(MsgPreparing)
    /\ error = Null
    /\ effectPending = FALSE
    /\ nDrops = 1
    /\ textBy = 0
    /\ errorBy = 1
    /\ \E f \in SubmitFiles :
          /\ file = f
          /\ runs = [r \in RunIds |->
                       IF r = 1
                       THEN [IdleRun EXCEPT !.pc = IF IsImageType(f.type) THEN "compress"
                                                   ELSE "probe",
                                            !.f = f, !.statuses = <<Some(MsgPreparing)>>]
                       ELSE IdleRun]

NextSubmit ==
    \/ ImagePass(1)
    \/ ProbeFast(1)
    \/ FetchReject(1)
    \/ FetchFail(1, SubmitResponses(Sent(runs[1])))
    \/ FetchSingleOk(1, SubmitResponses(Sent(runs[1])))

SpecSubmit == InitSubmit /\ [][NextSubmit]_vars

(***************************************************************************)
(* The route alone, against every request.                                  *)
(***************************************************************************)
\* The "file" part of the requests: none, a body that is not form data, and
\* files of each declared type (an image type, application/pdf, none,
\* application/octet-stream, another one) at sizes on both sides of the two
\* limits, with the extensions the route knows, one it does not, and none.
RouteUploads ==
    {Null, Unparsed}
    \cup {Some(Opaque(name, type, size)) :
            name \in {<<"scan", "png">>, <<"scan", "JPG">>, <<"book", "pdf">>,
                      <<"book", "PDF">>, <<"notes", "bin">>, <<"pdf">>, <<>>},
            type \in {<<"image", "png">>, <<"application", "pdf">>, <<"">>,
                      <<"application", "octet-stream">>, <<"text", "plain">>},
            size \in {0, MAX_IMAGE_SIZE_BYTES, MAX_IMAGE_SIZE_BYTES + 1,
                      MAX_PDF_SIZE_BYTES, MAX_PDF_SIZE_BYTES + 1}}

\* What the OCR service does with a call.
RouteUpstreams(f) ==
    Upstreams(f) \cup UpstreamFailures \cup {[kind |-> "garbled"]}

\* POST(request) handles a request. The route keeps no state from one
\* request to the next, so one request is followed from each start.
Post ==
    \E upload \in RouteUploads, apiKey \in BOOLEAN :
        \E up \in RouteUpstreams(IF upload.some THEN upload.val ELSE NoFile) :
            /\ served = NoRequest
            /\ served' = [kind |-> "request", upload |-> upload, apiKey |-> apiKey,
                          up |-> up, did |-> POST(upload, apiKey, up)]
            /\ UNCHANGED <<file, text, isProcessing, statusMessage, error, effectPending,
                           nDrops, runs, textBy, errorBy>>

NextRoute == Post

SpecRoute == Init /\ [][NextRoute]_vars

(***************************************************************************)
(* Properties of the splitter (SpecSplit).                                  *)
(***************************************************************************)
Pages(chunk) == chunk.body.last - chunk.body.first

SplitSucceeded(run) == run.pc = "split_ret"

\* C1: the chunks returned by a successful split of a P-page PDF cover, in
\* list order, [s_1,e_1), [s_2,e_2), ... with s_1 = 0, s_(i+1) = e_i,
\* s_i < e_i and e_last = P; the chunks accepted so far always cover [0, cursor).
C1_PartitionComplete ==
    \A r \in RunIds :
        LET ch == runs[r].chunks
        IN  /\ \A k \in DOMAIN ch :
                  /\ ch[k].body.first < ch[k].body.last
                  /\ ch[k].body.first = IF k = 1 THEN 0 ELSE ch[k - 1].body.last
            /\ SplitSucceeded(runs[r]) =>
                  /\ runs[r].pageCount = runs[r].f.body.pageCount
                  /\ IF Len(ch) = 0 THEN runs[r].pageCount = 0
                     ELSE Last(ch).body.last = runs[r].pageCount

\* A split has returned at least three chunks, one of them cut short of
\* PDF_CHUNK_MAX_PAGES by the byte budget before the last one.
C1_Witness ==
    \E r \in RunIds :
        /\ SplitSucceeded(runs[r])
        /\ Len(runs[r].chunks) >= 3
        /\ \E k \in 1..(Len(runs[r].chunks) - 1) :
              Pages(runs[r].chunks[k]) < PDF_CHUNK_MAX_PAGES

\* C2: every accepted chunk is at most the 45 MiB target, or is a single
\* page of at most the 50 MiB hard limit.
C2_BudgetSatisfied ==
    \A r \in RunIds :
        \A k \in DOMAIN runs[r].chunks :
            LET chunk == runs[r].chunks[k]
            IN  \/ chunk.size <= PDF_CHUNK_TARGET_BYTES
                \/ Pages(chunk) = 1 /\ chunk.size <= OCR_PDF_LIMIT_BYTES

\* A split has returned a single-page chunk above the target, exactly at the
\* hard limit, next to a multi-page chunk.
C2_Witness ==
    \E r \in RunIds :
        /\ SplitSucceeded(runs[r])
        /\ \E k \in DOMAIN runs[r].chunks :
              /\ Pages(runs[r].chunks[k]) = 1
              /\ runs[r].chunks[k].size = OCR_PDF_LIMIT_BYTES
        /\ \E k \in DOMAIN runs[r].chunks : Pages(runs[r].chunks[k]) > 1

(***************************************************************************)
(* Properties of the page with overlapping runs (SpecRace).                 *)
(***************************************************************************)
\* C3: once a new file is the active input, the displayed text and error are
\* written only by the run of that file (run nDrops), never by an earlier run.
C3_StaleRunsDiscarded ==
    file # NoFile => textBy \in {0, nDrops} /\ errorBy \in {0, nDrops}

(***************************************************************************)
(* Properties of one run of processOCR (Spec).                              *)
(***************************************************************************)
\* The submission of chunk k of n has failed in `run`: k is Len(run.calls).
ChunkFailed(run) == run.pc = "failed" /\ ~run.single /\ Len(run.calls) > 0

\* msg names chunk k and the total n: both numbers occur in it, in this order.
NamesChunk(msg, k, n) ==
    \E a, b \in DOMAIN msg : a < b /\ msg[a] = ToString(k) /\ msg[b] = ToString(n)

\* C4: when the submission of chunk k of n has failed the run is Failed, the
\* chunks submitted are exactly chunks 1..k, the run has written no text, and
\* it has set the error, which is displayed as long as no one else writes it.
C4_FailureHalts ==
    \A r \in RunIds :
        ChunkFailed(runs[r]) =>
            LET k == Len(runs[r].calls)
            IN  /\ k <= Len(runs[r].chunks)
                /\ runs[r].calls = SubSeq(runs[r].chunks, 1, k)
                /\ Len(runs[r].chunkTexts) = k - 1
                /\ runs[r].wrote = Null
                /\ textBy # r
                /\ runs[r].thrown.some
                /\ errorBy = r => error = runs[r].thrown

\* Chunk 2 of 3 has failed after chunk 1 returned a non-empty fragment.
C4_Witness ==
    \E r \in RunIds :
        /\ ChunkFailed(runs[r])
        /\ Len(runs[r].calls) = 2
        /\ Len(runs[r].chunks) = 3
        /\ runs[r].chunkTexts[1] # <<>>
        /\ error = runs[r].thrown

IsSubmitFailure(msg) ==
    \/ msg = ErrFetch
    \/ /\ Len(msg) >= 4
       /\ msg[Len(msg) - 2] = " (HTTP "
       /\ msg[Len(msg)] = ")"

C6_MergeOrdered ==
    \A r \in RunIds :
        (runs[r].pc = "done" /\ ~runs[r].single) =>
            LET t == runs[r].wrote.val
                n == Len(runs[r].chunks)
            IN  /\ \A a, b \in DOMAIN t : \A ka, kb \in 1..n :
                      (/\ a < b
                       /\ <<t[a]>> = OcrText(runs[r].chunks[ka])
                       /\ <<t[b]>> = OcrText(runs[r].chunks[kb])) => ka < kb
                /\ \A k \in 1..n :
                      runs[r].chunkTexts[k] # <<>> =>
                          \E a \in DOMAIN t : <<t[a]>> = runs[r].chunkTexts[k]

\* A run of three chunks is done and all three fragments are non-empty.
C6_Witness ==
    \E r \in RunIds :
        /\ runs[r].pc = "done"
        /\ Len(runs[r].chunks) = 3
        /\ \A k \in 1..3 : runs[r].chunkTexts[k] = OcrText(runs[r].chunks[k])
        /\ text = runs[r].wrote.val

\* The pages of a submitted PDF.
PageCountOf(f) == IF f.body.kind = "chunk" THEN Pages(f) ELSE f.body.pageCount

\* C7: every file handed to the boundary is an image of at most 10 MiB or a
\* PDF of at most 50 MiB and 100 pages, and the route never answers it with
\* FILE_TOO_LARGE.
C7_SubmissionsWithinLimits ==
    \A r \in RunIds :
        \A k \in DOMAIN runs[r].calls :
            LET f == runs[r].calls[k]
            IN  /\ IsImageType(f.type) \/ IsPdfType(f.type)
                /\ IsImageType(f.type) => f.size <= OCR_IMAGE_LIMIT_BYTES
                /\ IsPdfType(f.type) =>
                      /\ f.size <= OCR_PDF_LIMIT_BYTES
                      /\ PageCountOf(f) <= OCR_PDF_PAGE_LIMIT
                /\ \A apiKey \in BOOLEAN, up \in Upstreams(f) :
                      PostRoute(Some(f), apiKey, up).body.code # Some(<<"FILE_TOO_LARGE">>)

\* A single-page chunk of exactly 50 MiB has been submitted.
C7_Witness ==
    \E r \in RunIds :
        \E k \in DOMAIN runs[r].calls :
            /\ runs[r].calls[k].body.kind = "chunk"
            /\ runs[r].calls[k].size = OCR_PDF_LIMIT_BYTES

\* C8: a PDF that parses is submitted whole, unchanged and once, if and only
\* if it is at most 50 MiB and at most 100 pages; otherwise only chunks of
\* the splitter are submitted.
C8_FastPathIff ==
    \A r \in RunIds :
        LET run == runs[r]
        IN  (IsPdfType(run.f.type) /\ run.f.body.parses /\ run.pc \notin {"idle", "probe"}) =>
                IF run.f.size <= OCR_PDF_LIMIT_BYTES
                   /\ run.f.body.pageCount <= OCR_PDF_PAGE_LIMIT
                THEN /\ run.single
                     /\ run.calls = <<run.f>>
                     /\ run.chunks = <<>>
                     /\ run.pc \in {"fetch", "done", "failed"}
                ELSE /\ ~run.single
                     /\ run.calls = SubSeq(run.chunks, 1, Len(run.calls))
                     /\ \A k \in DOMAIN run.calls : run.calls[k] # run.f

\* A PDF of exactly 50 MiB and 100 pages has been submitted whole and is done.
C8_Witness ==
    \E r \in RunIds :
        /\ runs[r].f.size = OCR_PDF_LIMIT_BYTES
        /\ runs[r].f.body.kind = "pdf"
        /\ runs[r].f.body.pageCount = OCR_PDF_PAGE_LIMIT
        /\ runs[r].pc = "done"
        /\ runs[r].calls = <<runs[r].f>>

\* C9: an image of at most 10 MiB is never decoded or encoded; the run
\* submits the very same file, once.
C9_SmallImageUnchanged ==
    \A r \in RunIds :
        LET run == runs[r]
        IN  (IsImageType(run.f.type) /\ run.f.size <= OCR_IMAGE_LIMIT_BYTES
                /\ run.pc \notin {"idle", "compress"}) =>
                /\ run.pc \in {"fetch", "done", "failed"}
                /\ run.encodes = <<>>
                /\ run.calls = <<run.f>>

\* An image of exactly 10 MiB has been submitted as it is and the run is done.
C9_Witness ==
    \E r \in RunIds :
        /\ IsImageType(runs[r].f.type)
        /\ runs[r].f.size = OCR_IMAGE_LIMIT_BYTES
        /\ runs[r].pc = "done"
        /\ runs[r].calls = <<runs[r].f>>

(***************************************************************************)
(* Properties of the compressor (SpecCompress).                             *)
(***************************************************************************)
\* The place of a combination in the order scale-major, quality-minor.
Rank(c) == (c[1] - 1) * Len(qualities) + c[2]

Fits(f, c) == EncodedBytes(f.body, c[1], c[2]) <= OCR_IMAGE_LIMIT_BYTES

\* C10: the encodes of an oversized image follow the order scale 1.0, 0.9,
\* 0.8, 0.7, 0.6 by quality 0.9, 0.8, 0.7, 0.6, 0.5; none follows a fitting
\* one; and the file submitted is the encode of the fitting combination of
\* the greatest scale and, at that scale, the greatest quality.
C10_FirstFitInOrder ==
    \A r \in RunIds :
        LET run == runs[r]
            e == run.encodes
        IN  /\ \A k \in DOMAIN e :
                  /\ Rank(e[k]) = k
                  /\ scales[e[k][1]] = 10 - ((k - 1) \div 5)
                  /\ qualities[e[k][2]] = 9 - ((k - 1) % 5)
                  /\ k < Len(e) => ~Fits(run.f, e[k])
            /\ (run.pc = "fetch" /\ MustCompress(run.f)) =>
                  /\ Fits(run.f, Last(e))
                  /\ run.calls = <<CompressedFile(run.f, Last(e)[1], Last(e)[2])>>
                  /\ Last(run.calls).size <= OCR_IMAGE_LIMIT_BYTES
                  /\ \A c \in Combos :
                        Fits(run.f, c) =>
                            \/ scales[c[1]] < Last(run.calls).body.scale
                            \/ /\ scales[c[1]] = Last(run.calls).body.scale
                               /\ qualities[c[2]] <= Last(run.calls).body.quality

\* An image that fits at two combinations has been submitted at the first of
\* them, which is not at full scale.
C10_Witness ==
    \E r \in RunIds :
        /\ runs[r].pc = "fetch"
        /\ MustCompress(runs[r].f)
        /\ Cardinality(runs[r].f.body.fits) = 2
        /\ Len(runs[r].encodes) > Len(qualities)
        /\ Last(runs[r].calls).size = OCR_IMAGE_LIMIT_BYTES

\* C11: an oversized image none of whose 25 combinations fits is never
\* submitted; once all 25 have been encoded the run is Failed with the
\* manual-resize message, and that message is raised only after exactly the
\* 25 combinations, each once, all above the budget.
C11_ExhaustionFails ==
    \A r \in RunIds :
        LET run == runs[r]
        IN  /\ (MustCompress(run.f) /\ \A c \in Combos : ~Fits(run.f, c)) =>
                  /\ run.calls = <<>>
                  /\ run.pc # "done"
                  /\ Len(run.encodes) <= 25
                  /\ Len(run.encodes) = 25 =>
                        /\ run.pc = "failed"
                        /\ run.thrown = Some(ErrStillTooLarge)
            /\ run.thrown = Some(ErrStillTooLarge) =>
                  /\ run.pc = "failed"
                  /\ Len(run.encodes) = 25
                  /\ {run.encodes[k] : k \in DOMAIN run.encodes} = (1..5) \X (1..5)
                  /\ \A k \in DOMAIN run.encodes : ~Fits(run.f, run.encodes[k])
                  /\ run.calls = <<>>
                  /\ run.wrote = Null
                  /\ errorBy = r => error = Some(ErrStillTooLarge)

\* A 12 MiB image has failed after 25 encodes and the message is displayed.
C11_Witness ==
    \E r \in RunIds :
        /\ runs[r].f.size = 12 * MiB
        /\ runs[r].pc = "failed"
        /\ Len(runs[r].encodes) = 25
        /\ error = Some(ErrStillTooLarge)
        /\ ~isProcessing

(***************************************************************************)
(* Failures of the preparation (Spec).                                      *)
(***************************************************************************)
\* Page p of doc, saved alone, is above the hard limit.
PageTooLarge(doc, p) == SavedBytes(doc, p, p + 1) > OCR_PDF_LIMIT_BYTES

\* C12: the manual-reduction message is raised only for a one-page chunk
\* above 50 MiB, and then the run is Failed with nothing submitted and no
\* text written, whatever chunks the split had accepted; and a split of a
\* PDF holding such a page never returns chunks.
C12_UnsplittablePageFails ==
    \A r \in RunIds :
        LET run == runs[r]
        IN  /\ run.thrown = Some(ErrSinglePage) =>
                  /\ run.pc = "failed"
                  /\ run.end - run.cursor = 1
                  /\ PageTooLarge(run.f.body, run.cursor)
                  /\ \A k \in DOMAIN run.chunks : run.chunks[k].body.last <= run.cursor
                  /\ run.calls = <<>>
                  /\ run.chunkTexts = <<>>
                  /\ run.wrote = Null
                  /\ errorBy = r => error = Some(ErrSinglePage)
            /\ (/\ run.pc \notin {"idle", "probe"}
                /\ run.f.body.kind = "pdf"
                /\ run.f.body.parses
                /\ ~run.single
                /\ \E p \in 0..(run.f.body.pageCount - 1) : PageTooLarge(run.f.body, p)) =>
                  /\ run.pc \in {"split_load", "create", "failed"}
                  /\ run.calls = <<>>
                  /\ run.pc = "failed" => run.thrown = Some(ErrSinglePage)

\* The split of a two-page PDF has accepted page 0 as a chunk and failed on
\* page 1, which saves to 55 MiB alone.
C12_Witness ==
    \E r \in RunIds :
        /\ runs[r].thrown = Some(ErrSinglePage)
        /\ Len(runs[r].chunks) = 1
        /\ runs[r].cursor = 1
        /\ SavedBytes(runs[r].f.body, 1, 2) = 55 * MiB + 5 * 256
        /\ error = Some(ErrSinglePage)

\* C13: a run for a file that is neither an image nor a PDF is Failed with
\* the unsupported-type message from its first step on, having encoded,
\* split, submitted and received nothing; and that message is raised for no
\* other file.
C13_UnsupportedFailsAtOnce ==
    \A r \in RunIds :
        LET run == runs[r]
        IN  /\ (run.pc # "idle" /\ ~IsImageType(run.f.type) /\ ~IsPdfType(run.f.type)) =>
                  /\ run.pc = "failed"
                  /\ run.thrown = Some(ErrUnsupported)
                  /\ run.encodes = <<>>
                  /\ run.chunks = <<>>
                  /\ run.calls = <<>>
                  /\ run.got = <<>>
                  /\ run.wrote = Null
                  /\ errorBy = r => error = Some(ErrUnsupported)
            /\ run.thrown = Some(ErrUnsupported) =>
                  ~IsImageType(run.f.type) /\ ~IsPdfType(run.f.type)

\* notes.pdf, dropped with an empty media type and accepted by its
\* extension, has failed as unsupported and the message is displayed.
C13_Witness ==
    \E r \in RunIds :
        /\ runs[r].f.name = <<"notes", "pdf">>
        /\ runs[r].f.type = <<"">>
        /\ runs[r].pc = "failed"
        /\ file = runs[r].f
        /\ error = Some(ErrUnsupported)
        /\ ~isProcessing
        /\ statusMessage = Null

(***************************************************************************)
(* Properties of one submission (SpecSubmit).                               *)
(***************************************************************************)
\* The response is JSON that parses.
IsJsonResponse(response) == response.isJson /\ response.body.kind = "json"

\* The raw body of the response cut to 500 characters.
Diagnostic(response) ==
    IF response.body.kind = "raw"
    THEN Truncated(response.body, MAX_ERROR_BODY_LENGTH)
    ELSE <<"{json}">>

\* C14 as stated: a run that has received a non-JSON or malformed-JSON
\* response, whatever its status, is Failed with a message that carries the
\* truncated raw body, and has written no text.
C14_NonJsonIsFailure ==
    \A r \in RunIds :
        \A k \in DOMAIN runs[r].got :
            ~IsJsonResponse(runs[r].got[k]) =>
                /\ runs[r].pc = "failed"
                /\ runs[r].wrote = Null
                /\ \E a \in DOMAIN runs[r].thrown.val :
                      SubSeq(runs[r].thrown.val, a, a + Len(Diagnostic(runs[r].got[k])) - 1)
                          = Diagnostic(runs[r].got[k])

\* " (HTTP <status>)"
StatusHint(response) == <<" (HTTP ", ToString(response.status), ")">>

\* C15: a run that has received a non-2xx response is Failed, and its message
\* is the error of the JSON body when there is a non-empty one, else, for a
\* body that is not JSON, "Non-JSON response: " and the raw body cut to 500
\* characters, else "OCR processing failed"; each followed by the HTTP status.
C15_FailureMessage ==
    \A r \in RunIds :
        \A k \in DOMAIN runs[r].got :
            LET response == runs[r].got[k]
            IN  ~Ok(response) =>
                    /\ runs[r].pc = "failed"
                    /\ k = Len(runs[r].got)
                    /\ runs[r].thrown =
                          Some((IF IsJsonResponse(response)
                                THEN IF response.body.error.some /\ response.body.error.val # <<>>
                                     THEN response.body.error.val
                                     ELSE <<"OCR processing failed">>
                                ELSE <<"Non-JSON response: ">> \o Diagnostic(response))
                               \o StatusHint(response))

\* A 502 page of 501 characters has been received: the error displayed holds
\* its first 500 characters, an ellipsis and the status.
C15_Witness ==
    \E r \in RunIds :
        /\ runs[r].pc = "failed"
        /\ runs[r].got = <<[status |-> 502, isJson |-> FALSE,
                             body |-> RawBody("<html>", MAX_ERROR_BODY_LENGTH + 1)]>>
        /\ error = Some(<<"Non-JSON response: ", "<html>:500", "...", " (HTTP ", "502", ")">>)

(***************************************************************************)
(* Properties of the submissions of one run (Spec).                         *)
(***************************************************************************)
\* C16: no file is submitted twice by a run, the files submitted are the
\* whole file alone or the chunks in list order, each call receives at most
\* one response, a response that is not a success is the last one and leaves
\* the run Failed, and a Failed run does nothing more.
C16_NoRetry ==
    /\ [](\A r \in RunIds :
            LET run == runs[r]
            IN  /\ \A a, b \in DOMAIN run.calls : a # b => run.calls[a] # run.calls[b]
                /\ run.single => Len(run.calls) <= 1
                /\ ~run.single => run.calls = SubSeq(run.chunks, 1, Len(run.calls))
                /\ Len(run.got) <= Len(run.calls)
                /\ \A k \in DOMAIN run.got :
                      ~SubmitFileToOcr(run.got[k]).ok =>
                          k = Len(run.got) /\ k = Len(run.calls) /\ run.pc = "failed")
    /\ [][\A r \in RunIds :
             /\ runs[r].pc = "failed" => runs'[r] = runs[r]
             /\ (runs[r].pc = "fetch" /\ runs'[r].pc # "fetch"
                    /\ Len(runs'[r].chunkTexts) = Len(runs[r].chunkTexts)
                    /\ runs'[r].pc # "done") =>
                   runs'[r].pc = "failed" /\ runs'[r].calls = runs[r].calls
         ]_vars

\* The second of three chunks has been answered with an error: two files
\* were submitted, two responses received, and the run is Failed.
C16_Witness ==
    \E r \in RunIds :
        /\ runs[r].pc = "failed"
        /\ Len(runs[r].chunks) = 3
        /\ Len(runs[r].calls) = 2
        /\ Len(runs[r].got) = 2
        /\ Ok(runs[r].got[1])
        /\ ~Ok(runs[r].got[2])

\* C17: the chunks are submitted in list order, a chunk is submitted only
\* when every earlier one has been answered with a success, and at most one
\* submission of a run is unanswered: the one the run is waiting for, or the
\* one whose fetch was rejected.
C17_Sequential ==
    \A r \in RunIds :
        LET run == runs[r]
            unanswered == Len(run.calls) - Len(run.got)
        IN  /\ ~run.single => run.calls = SubSeq(run.chunks, 1, Len(run.calls))
            /\ unanswered \in {0, 1}
            /\ unanswered = 1 =>
                  \/ run.pc = "fetch"
                  \/ run.pc = "failed" /\ run.thrown = Some(ErrFetch)
            /\ \A k \in 1..(Len(run.calls) - 1) :
                  /\ k \in DOMAIN run.got
                  /\ Ok(run.got[k])
                  /\ <<run.got[k].body.text.val, run.chunkTexts[k]>> \in
                        {<<t, t>> : t \in {<<>>, OcrText(run.chunks[k])}}

\* The third of three chunks is in flight after the first two were answered.
C17_Witness ==
    \E r \in RunIds :
        /\ runs[r].pc = "fetch"
        /\ Len(runs[r].chunks) = 3
        /\ runs[r].calls = runs[r].chunks
        /\ Len(runs[r].got) = 2
        /\ statusMessage = Some(MsgChunk(3, 3))

(***************************************************************************)
(* Properties of the page under its scheduling (SpecLive).                  *)
(***************************************************************************)
Ended(run) == run.pc \in {"done", "failed"}

\* C18: every started run ends Done or Failed and every selection gets its
\* effect run (a run that has ended stays so and the selections of a session
\* are finitely many, so this is: from some time on no effect is pending and
\* no run is under way); every file selected gets a run of its own, started
\* from scratch for that file, whatever became of the runs before it; the
\* step that ends a run sets the processing flag to false and the status
\* message to null, displays the text of a Done run and the non-null error
\* of a Failed one.
C18_RunsEnd ==
    /\ <>[](~effectPending /\ \A r \in RunIds : runs[r].pc = "idle" \/ Ended(runs[r]))
    /\ [](file # NoFile /\ ~effectPending =>
             runs[nDrops].pc # "idle" /\ runs[nDrops].f = file)
    /\ [][\A r \in RunIds :
             /\ (runs[r].pc = "idle" /\ runs'[r].pc # "idle") =>
                   /\ r = nDrops
                   /\ runs'[r].f = file
                   /\ file # NoFile
                   /\ runs'[r].calls = <<>> /\ runs'[r].got = <<>>
                   /\ error' = (IF Ended(runs'[r]) THEN runs'[r].thrown ELSE Null)
                   /\ isProcessing' = ~Ended(runs'[r])
             /\ (~Ended(runs[r]) /\ Ended(runs'[r])) =>
                   /\ isProcessing' = FALSE
                   /\ statusMessage' = Null
                   /\ runs'[r].pc = "failed" =>
                         /\ runs'[r].thrown.some
                         /\ error' = runs'[r].thrown
                         /\ text' = text
                   /\ runs'[r].pc = "done" =>
                         /\ runs'[r].wrote.some
                         /\ text' = runs'[r].wrote.val
                         /\ error' = error
         ]_vars

\* After a run that Failed, a second file was accepted and its run is Done.
C18_Witness ==
    /\ runs[1].pc = "failed"
    /\ runs[2].pc = "done"
    /\ file = runs[2].f
    /\ text = runs[2].wrote.val
    /\ error = Null
    /\ ~isProcessing
    /\ statusMessage = Null

(***************************************************************************)
(* Properties of the page over several selections (SpecRace).               *)
(***************************************************************************)
\* C19: the step in which a file becomes the active input leaves the text
\* empty and the error null and schedules the effect; the run that the
\* effect starts is the run of that file, its first call of setStatusMessage
\* is "Preparing file...", it sets the error to null (or, failing in the
\* same turn, to its own message), and the status committed by that step is
\* the last one the run has set in it.
C19_SelectionResets ==
    /\ [][(file' # file /\ file' # NoFile) =>
             /\ text' = <<>>
             /\ error' = Null
             /\ effectPending'
             /\ nDrops' = nDrops + 1
             /\ runs'[nDrops'].pc = "idle"
         ]_vars
    /\ [][\A r \in RunIds :
             (runs[r].pc = "idle" /\ runs'[r].pc # "idle") =>
                 /\ r = nDrops
                 /\ runs'[r].f = file
                 /\ text' = text
                 /\ runs'[r].statuses[1] = Some(MsgPreparing)
                 /\ statusMessage' = Last(runs'[r].statuses)
                 /\ error' = runs'[r].thrown
                 /\ ~Ended(runs'[r]) => isProcessing' /\ statusMessage' # Null
         ]_vars

\* A second file has been selected after the first run displayed its text,
\* and its run has started: the text is empty, the error null and the status
\* "Preparing file...".
C19_Witness ==
    /\ nDrops = 2
    /\ runs[1].pc = "done"
    /\ runs[1].wrote.val # <<>>
    /\ runs[2].pc = "compress"
    /\ file = runs[2].f
    /\ text = <<>>
    /\ error = Null
    /\ isProcessing
    /\ statusMessage = Some(MsgPreparing)

\* C20: while the run of the active file is under way the processing flag
\* is true and the status message is set: no other run clears them.
C20_ExclusiveWrites ==
    (file # NoFile /\ ~effectPending /\ ~Ended(runs[nDrops])) =>
        isProcessing /\ statusMessage # Null

(***************************************************************************)
(* More properties of the splitter (SpecSplit).                             *)
(***************************************************************************)
\* C21: every chunk of a split, accepted or still a candidate, has at least
\* 1 and at most PDF_CHUNK_MAX_PAGES pages, which is within the page limit
\* of the OCR service, and the split of a PDF of at least one page returns
\* at least one chunk.
C21_ChunkPageCounts ==
    \A r \in RunIds :
        /\ \A k \in DOMAIN runs[r].chunks :
              /\ 1 <= Pages(runs[r].chunks[k])
              /\ Pages(runs[r].chunks[k]) <= PDF_CHUNK_MAX_PAGES
              /\ Pages(runs[r].chunks[k]) <= OCR_PDF_PAGE_LIMIT
        /\ runs[r].pc = "create" =>
              /\ 1 <= Pages(Candidate(runs[r]))
              /\ Pages(Candidate(runs[r])) <= PDF_CHUNK_MAX_PAGES
        /\ (SplitSucceeded(runs[r]) /\ runs[r].f.body.pageCount >= 1) =>
              Len(runs[r].chunks) >= 1

\* A split has returned a chunk of exactly PDF_CHUNK_MAX_PAGES pages, whose
\* input had more pages left, and a chunk of exactly one page.
C21_Witness ==
    \E r \in RunIds :
        /\ SplitSucceeded(runs[r])
        /\ runs[r].pageCount > PDF_CHUNK_MAX_PAGES
        /\ \E k \in DOMAIN runs[r].chunks : Pages(runs[r].chunks[k]) = PDF_CHUNK_MAX_PAGES
        /\ \E k \in DOMAIN runs[r].chunks : Pages(runs[r].chunks[k]) = 1

\* [c, e) of doc saves to at most the target.
FitsTarget(doc, c, e) == SavedBytes(doc, c, e) <= PDF_CHUNK_TARGET_BYTES

\* The end of the largest admissible chunk of doc from the cursor c.
LargestEnd(doc, c) ==
    LET top == Min(c + PDF_CHUNK_MAX_PAGES, doc.pageCount)
        ok == {e \in (c + 1)..top : FitsTarget(doc, c, e)}
    IN  IF ok = {} THEN c + 1 ELSE CHOOSE e \in ok : \A d \in ok : d <= e

\* Every window of PDF_CHUNK_MAX_PAGES pages of doc, and the last shorter
\* one, fits the target.
EveryWindowFits(doc) ==
    \A k \in 0..(doc.pageCount \div PDF_CHUNK_MAX_PAGES) :
        k * PDF_CHUNK_MAX_PAGES < doc.pageCount =>
            FitsTarget(doc, k * PDF_CHUNK_MAX_PAGES,
                       Min((k + 1) * PDF_CHUNK_MAX_PAGES, doc.pageCount))

\* ceil(a / b)
CeilDiv(a, b) == (a + b - 1) \div b

\* C22: every accepted chunk ends at the greatest e <= min(c + 40, P) whose
\* range [c, e) saves to at most the target, or at c + 1 when there is none,
\* c being the end of the chunk before it; and when every 40-page window
\* fits, the split of a P-page PDF returns ceil(P / 40) chunks, the k-th
\* covering [40 (k - 1), min(40 k, P)).
C22_LargestAdmissible ==
    \A r \in RunIds :
        LET ch == runs[r].chunks
            doc == runs[r].f.body
        IN  /\ \A k \in DOMAIN ch :
                  ch[k].body.last = LargestEnd(doc, ch[k].body.first)
            /\ (SplitSucceeded(runs[r]) /\ EveryWindowFits(doc)) =>
                  /\ Len(ch) = CeilDiv(doc.pageCount, PDF_CHUNK_MAX_PAGES)
                  /\ \A k \in DOMAIN ch :
                        /\ ch[k].body.first = PDF_CHUNK_MAX_PAGES * (k - 1)
                        /\ ch[k].body.last = Min(PDF_CHUNK_MAX_PAGES * k, doc.pageCount)

\* A split of 120 pages whose windows all fit has returned [0, 40), [40, 80)
\* and [80, 120).
C22_Witness ==
    \E r \in RunIds :
        /\ SplitSucceeded(runs[r])
        /\ runs[r].pageCount = 120
        /\ EveryWindowFits(runs[r].f.body)
        /\ Len(runs[r].chunks) = 3
        /\ Pages(runs[r].chunks[3]) = PDF_CHUNK_MAX_PAGES

\* A split has accepted a chunk cut by the byte budget to more than one page
\* and a chunk of one page that no shrinking could bring under the target.
C22_WitnessShrunk ==
    \E r \in RunIds :
        /\ SplitSucceeded(runs[r])
        /\ \E k \in DOMAIN runs[r].chunks :
              /\ Pages(runs[r].chunks[k]) > 1
              /\ runs[r].chunks[k].body.last <
                    Min(runs[r].chunks[k].body.first + PDF_CHUNK_MAX_PAGES, runs[r].pageCount)
        /\ \E k \in DOMAIN runs[r].chunks :
              ~FitsTarget(runs[r].f.body, runs[r].chunks[k].body.first,
                          runs[r].chunks[k].body.last)

\* The split of `run` has ended: it has returned its chunks or has thrown.
SplitEnded(run) == run.pc \in {"split_ret", "failed"}

\* C23: every split ends, with its chunk list and the cursor at the page
\* count or with a failure of the load or of an unsplittable page; a
\* re-serialization takes one page off a candidate that is above the target
\* and has more than one page, leaving at least one; a candidate leaves the
\* shrink loop when it fits the target or has exactly one page; and an
\* accepted chunk moves the cursor forward, to at most the page count.
C23_SplitTerminates ==
    /\ <>(\A r \in RunIds : runs[r].pc # "idle" => SplitEnded(runs[r]))
    /\ [](\A r \in RunIds :
            /\ runs[r].pc = "split_ret" =>
                  /\ runs[r].cursor = runs[r].pageCount
                  /\ runs[r].pageCount = runs[r].f.body.pageCount
            /\ runs[r].pc = "failed" => runs[r].thrown \in {Some(ErrPdfLoad), Some(ErrSinglePage)}
            /\ runs[r].pc = "create" =>
                  /\ runs[r].cursor < runs[r].end
                  /\ runs[r].end <= runs[r].pageCount)
    /\ [][\A r \in RunIds :
            runs[r].pc = "create" =>
                \/ /\ runs'[r].pc = "create"
                   /\ runs'[r].cursor = runs[r].cursor
                   /\ runs'[r].end = runs[r].end - 1
                   /\ runs'[r].chunks = runs[r].chunks
                   /\ ~FitsTarget(runs[r].f.body, runs[r].cursor, runs[r].end)
                \/ /\ runs'[r].pc \in {"create", "split_ret"}
                   /\ runs'[r].cursor = runs[r].end
                   /\ Len(runs'[r].chunks) = Len(runs[r].chunks) + 1
                   /\ \/ FitsTarget(runs[r].f.body, runs[r].cursor, runs[r].end)
                      \/ runs[r].end - runs[r].cursor = 1
                \/ /\ runs'[r].pc = "failed"
                   /\ runs[r].end - runs[r].cursor = 1
         ]_vars

\* A split has ended after a chunk was re-serialized down to one page and
\* the cursor went on to the page count.
C23_Witness ==
    \E r \in RunIds :
        /\ SplitSucceeded(runs[r])
        /\ runs[r].pageCount > PDF_CHUNK_MAX_PAGES
        /\ runs[r].cursor = runs[r].pageCount
        /\ \E k \in DOMAIN runs[r].chunks :
              /\ Pages(runs[r].chunks[k]) = 1
              /\ runs[r].chunks[k].body.first + 1 < runs[r].pageCount
              /\ ~FitsTarget(runs[r].f.body, runs[r].chunks[k].body.first,
                              runs[r].chunks[k].body.first + 2)

(***************************************************************************)
(* More properties of one run of processOCR (Spec).                         *)
(***************************************************************************)
\* The name without its extension: the segments before the last one, when
\* there is a last segment after a dot and it is not empty.
BaseName(name) == IF Len(name) > 1 /\ Last(name) # "" THEN Front(name) ELSE name

\* <base name>.part-k.pdf
PartName(name, k) == BaseName(name) \o <<"part-" \o ToString(k), "pdf">>

\* C24: the k-th chunk of the list a split builds is named
\* <base name>.part-k.pdf, k from 1 without gap or repeat whatever the
\* number of re-serializations, the part number of the candidate is one more
\* than the number of chunks accepted, and the k-th submission of a chunked
\* run is the file named part-k.
C24_PartNumbers ==
    \A r \in RunIds :
        /\ \A k \in DOMAIN runs[r].chunks :
              runs[r].chunks[k].name = PartName(runs[r].f.name, k)
        /\ runs[r].pc = "create" =>
              /\ runs[r].partNumber = Len(runs[r].chunks) + 1
              /\ Candidate(runs[r]).name = PartName(runs[r].f.name, Len(runs[r].chunks) + 1)
        /\ (runs[r].pc # "idle" /\ ~runs[r].single) =>
              \A k \in DOMAIN runs[r].calls :
                  runs[r].calls[k].name = PartName(runs[r].f.name, k)

\* my.book.PDF was split in two chunks, the first after two
\* re-serializations, and my.book.part-2.pdf has been submitted second.
C24_Witness ==
    \E r \in RunIds :
        /\ runs[r].f.name = <<"my", "book", "PDF">>
        /\ Len(runs[r].chunks) = 2
        /\ Pages(runs[r].chunks[1]) = 2
        /\ runs[r].f.body.pageCount = 4
        /\ Len(runs[r].calls) = 2
        /\ runs[r].calls[2].name = <<"my", "book", "part-2", "pdf">>
        /\ runs[r].calls[1].name = <<"my", "book", "part-1", "pdf">>

\* The run is in, or has left, the chunk loop of processOCR.
InChunkLoop(run) == ~run.single /\ run.pc \in {"fetch", "sleep", "done", "failed"} /\ run.calls # <<>>

\* C25: in a chunked run of n chunks every pause is of SLEEP_MS = 250 ms;
\* the pauses taken are one per successful response to a chunk before the
\* last, so one between the response to chunk i and the submission of chunk
\* i + 1, none after the last chunk and none after a failed submission; and
\* a run that submits a single file takes none.
C25_PauseBetweenChunks ==
    \A r \in RunIds :
        LET run == runs[r]
            n == Len(run.chunks)
            answered == Len(run.chunkTexts)
        IN  /\ \A j \in DOMAIN run.sleeps : run.sleeps[j] = 250
            /\ run.single => run.sleeps = <<>>
            /\ run.pc = "sleep" => InChunkLoop(run)
            /\ InChunkLoop(run) =>
                  /\ Len(run.sleeps) = Min(answered, n - 1)
                  /\ run.pc = "fetch" =>
                        /\ Len(run.calls) = Len(run.sleeps) + 1
                        /\ answered = Len(run.sleeps)
                  /\ run.pc = "sleep" =>
                        /\ Len(run.calls) = Len(run.sleeps)
                        /\ answered = Len(run.calls)
                        /\ answered < n
                  /\ run.pc = "failed" =>
                        /\ Len(run.sleeps) = Len(run.calls) - 1
                        /\ answered = Len(run.calls) - 1
                  /\ run.pc = "done" =>
                        /\ answered = n
                        /\ Len(run.sleeps) = n - 1

\* A run of three chunks is done after two pauses, and no pause followed
\* its last response.
C25_Witness ==
    \E r \in RunIds :
        /\ runs[r].pc = "done"
        /\ Len(runs[r].chunks) = 3
        /\ Len(runs[r].got) = 3
        /\ runs[r].sleeps = <<SLEEP_MS, SLEEP_MS>>

\* A run of three chunks has failed at its second chunk, after one pause.
C25_WitnessFailed ==
    \E r \in RunIds :
        /\ ChunkFailed(runs[r])
        /\ Len(runs[r].chunks) = 3
        /\ Len(runs[r].calls) = 2
        /\ runs[r].sleeps = <<SLEEP_MS>>

RECURSIVE JoinedNonEmpty(_)
\* The non-empty fragments of texts with one separator between neighbours,
\* built from the last fragment backwards.
JoinedNonEmpty(texts) ==
    IF texts = <<>> THEN <<>>
    ELSE LET before == JoinedNonEmpty(Front(texts))
         IN  IF Last(texts) = <<>> THEN before
             ELSE IF before = <<>> THEN Last(texts)
             ELSE before \o <<"\n\n">> \o Last(texts)

\* The number of separators in t.
Separators(t) == Cardinality({j \in DOMAIN t : t[j] = "\n\n"})

\* C26: the text a completed chunked run displays is its non-empty
\* fragments, in order, with one "\n\n" between neighbours: it has no
\* separator first, last or next to another, one separator less than there
\* are non-empty fragments, and it is empty when every fragment is.
C26_MergeDropsEmpty ==
    \A r \in RunIds :
        (runs[r].pc = "done" /\ ~runs[r].single) =>
            LET texts == runs[r].chunkTexts
                merged == runs[r].wrote.val
                kept == Cardinality({k \in DOMAIN texts : texts[k] # <<>>})
            IN  /\ runs[r].wrote.some
                /\ Len(texts) = Len(runs[r].chunks)
                /\ merged = JoinedNonEmpty(texts)
                /\ kept = 0 => merged = <<>>
                /\ kept > 0 =>
                      /\ Head(merged) # "\n\n"
                      /\ Last(merged) # "\n\n"
                      /\ Separators(merged) = kept - 1
                      /\ \A j \in 1..(Len(merged) - 1) :
                            ~(merged[j] = "\n\n" /\ merged[j + 1] = "\n\n")

\* A run of three chunks is done whose second fragment was empty: its text
\* is the first and the third fragment with one separator between them.
C26_Witness ==
    \E r \in RunIds :
        /\ runs[r].pc = "done"
        /\ Len(runs[r].chunkTexts) = 3
        /\ runs[r].chunkTexts[1] # <<>>
        /\ runs[r].chunkTexts[2] = <<>>
        /\ runs[r].chunkTexts[3] # <<>>
        /\ text = runs[r].chunkTexts[1] \o <<"\n\n">> \o runs[r].chunkTexts[3]

\* A run of three chunks is done whose fragments were all empty.
C26_WitnessAllEmpty ==
    \E r \in RunIds :
        /\ runs[r].pc = "done"
        /\ runs[r].chunkTexts = <<<<>>, <<>>, <<>>>>
        /\ runs[r].wrote = Some(<<>>)

\* The chunk files a run holds: the array splitPdfForOcr builds and returns
\* is referenced by processOCR until the run ends.
Resident(run) ==
    IF run.pc \in {"create", "split_ret", "fetch", "sleep"}
    THEN {run.chunks[k] : k \in DOMAIN run.chunks}
    ELSE {}

\* C27: while a chunk is being submitted the run holds no chunk file but
\* the one it is submitting.
C27_OneChunkResident ==
    \A r \in RunIds :
        (runs[r].pc = "fetch" /\ ~runs[r].single) =>
            Resident(runs[r]) \subseteq {Sent(runs[r])}

\* C28: while no file is selected the text is empty and the error is null,
\* whatever a run started before the Clear does afterwards.
C28_ClearedStaysCleared ==
    file = NoFile => text = <<>> /\ error = Null

(***************************************************************************)
(* Properties of the route (SpecRoute).                                     *)
(***************************************************************************)
\* The limit of a declared type: 50 MiB for application/pdf, 10 MiB otherwise.
DeclaredLimit(type) ==
    IF type = <<"application", "pdf">> THEN 50 * 1024 * 1024 ELSE 10 * 1024 * 1024

\* C29: the route calls the OCR service exactly when the request has a file,
\* the file is within the limit of its declared type and the API key is
\* set; a request without file is answered 400, a file above its limit 400
\* with code FILE_TOO_LARGE, a missing key 500, none of them with a call;
\* every answer is JSON, with a text and no error when it is 2xx and a
\* non-empty error otherwise, also when something throws; and the status of
\* a failed call is passed on.
C29_RouteGuards ==
    served # NoRequest =>
        LET upload == served.upload
            did == served.did
            body == did.response.body
            within == upload.some /\ upload.val.size <= DeclaredLimit(upload.val.type)
        IN  /\ did.forwarded.some <=> (within /\ served.apiKey)
            /\ upload = Null =>
                  did.response.status = 400 /\ body.code = Null
            /\ (upload.some /\ ~within) =>
                  did.response.status = 400 /\ body.code = Some(<<"FILE_TOO_LARGE">>)
            /\ (within /\ ~served.apiKey) =>
                  did.response.status = 500 /\ body.code = Null
            /\ did.response.isJson
            /\ body.kind = "json"
            /\ IF Ok(did.response)
               THEN /\ body.text.some
                    /\ ~body.error.some
                    /\ did.forwarded.some
                    /\ served.up.kind = "ok"
               ELSE /\ body.error.some
                    /\ body.error.val # <<>>
                    /\ ~body.text.some
            /\ (did.forwarded.some /\ served.up.kind = "error") =>
                  did.response.status = served.up.status
            /\ (did.forwarded.some /\ served.up.kind \in {"throw", "garbled"}) =>
                  did.response.status = 500

\* The route has refused a file for its size although the key is missing
\* too, and the OCR service was not called.
C29_Witness ==
    /\ served # NoRequest
    /\ served.upload.some
    /\ served.upload.val.type = <<"application", "pdf">>
    /\ served.upload.val.size = MAX_PDF_SIZE_BYTES + 1
    /\ ~served.apiKey
    /\ served.did.response.status = 400
    /\ ~served.did.forwarded.some

\* The route has passed on a file exactly at its limit, and the service
\* answered without md_results: the text is the empty string.
C29_WitnessForwarded ==
    /\ served # NoRequest
    /\ served.upload.some
    /\ served.upload.val.size = MAX_IMAGE_SIZE_BYTES
    /\ served.did.forwarded.some
    /\ served.did.response.status = 200
    /\ served.did.response.body.text = Some(<<>>)

\* The limit of the media type sent to the OCR service.
ForwardedLimit(mimeType) ==
    IF mimeType = <<"application", "pdf">> THEN MAX_PDF_SIZE_BYTES ELSE MAX_IMAGE_SIZE_BYTES

\* C30: the limit the route compared the size of a file with is the limit of
\* the media type it sent the file as.
C30_LimitOfForwardedType ==
    (served # NoRequest /\ served.did.forwarded.some) =>
        served.did.maxSize = ForwardedLimit(served.did.forwarded.val.mimeType)
====
